---- MODULE Spec2Model ----
(***************************************************************************)
(* A model of the privilege resolution and mutation engine of ppath.       *)
(*                                                                         *)
(* Two copies of the engine exist in the repository:                       *)
(*   copy A: src/src/ppath/__init__.py  (operators without suffix or "A")  *)
(*   copy B: src/ppath/__init__.py      (operators with suffix "B")        *)
(*                                                                         *)
(* The file system is a finite map from absolute paths (sequences of       *)
(* names) to nodes; a path outside the map's domain does not exist.        *)
(***************************************************************************)
EXTENDS Integers, Sequences, FiniteSets, TLC

VARIABLES fs, env, call

vars == <<fs, env, call>>

(***************************************************************************)
(* Bounds of the model.                                                    *)
(***************************************************************************)
\* Longest ancestor chain below "/" that the resolver specification builds.
MaxDepth == 4
\* Longest path the operations of the engine specification are called on.
TreeDepth == 2
\* Longest path below the temporary directory in the scenario specification.
ScenarioDepth == 9
\* Longest chain of symbolic links that is followed.
MaxLinks == 2
\* Bytes read at a time by Path.checksum (the block_size argument, scaled down).
BlockSize == 2
\* Longest file content, in bytes.
MaxBytes == 3
\* Most Passwd objects built in the cache specification.
MaxObjects == 4
\* Threads that build a Passwd at the same time.
NumThreads == 3
\* Most steps of the body of a cd / tempcd context.
MaxBody == 2

(***************************************************************************)
(* Identities, permission bits.                                            *)
(***************************************************************************)
RootUid == 0
\* any account other than root
UserUid == RootUid + 1
Uids == {RootUid, UserUid}

\* An identity argument (passwd=): None, a Passwd instance of an account, or
\* a string, with or without the ":" separator.
NoPasswd == [kind |-> "none", uid |-> RootUid, colon |-> FALSE]
PasswdOf(uid) == [kind |-> "passwd", uid |-> uid, colon |-> FALSE]
PasswdStr(uid, colon) == [kind |-> "str", uid |-> uid, colon |-> colon]

\* what which() answers when the escalation command is installed
SudoBin == "/usr/bin/sudo"

R_OK == "r"
W_OK == "w"
X_OK == "x"

\* A mode is a set of <<class, bit>> pairs; <<"u","s">> and <<"g","s">> are the
\* set-user-ID and set-group-ID bits.
Bits(classes, perms) == {<<c, b>> : c \in classes, b \in perms}
M755 == Bits({"u"}, {"r", "w", "x"}) \cup Bits({"g", "o"}, {"r", "x"})
M644 == Bits({"u"}, {"r", "w"}) \cup Bits({"g", "o"}, {"r"})
M700 == Bits({"u"}, {"r", "w", "x"})
M777 == Bits({"u", "g", "o"}, {"r", "w", "x"})

(***************************************************************************)
(* Pure paths: [abs, parts].  "/" is [abs |-> TRUE, parts |-> <<>>] and    *)
(* "." is [abs |-> FALSE, parts |-> <<>>].                                 *)
(***************************************************************************)
AbsPath(parts) == [abs |-> TRUE, parts |-> parts]
RelPath(parts) == [abs |-> FALSE, parts |-> parts]
RootPath == AbsPath(<<>>)

Front(s) == SubSeq(s, 1, Len(s) - 1)

\* pathlib's .parent: the parent of "/" is "/", the parent of "." is "."
Parent(p) == IF p.parts = <<>> THEN p ELSE [p EXCEPT !.parts = Front(p.parts)]

\* pathlib's "/" operator with a relative name
Join(p, parts) == [p EXCEPT !.parts = p.parts \o parts]

\* str(path) == "/"
IsSlash(p) == p.abs /\ p.parts = <<>>

\* The absolute location a path denotes for the process (its key in fs).
Key(e, p) == IF p.abs THEN p.parts ELSE e.cwd \o p.parts

\* .absolute() / .resolve() of a path (the model holds no symbolic links)
Absolute(e, p) == AbsPath(Key(e, p))

(***************************************************************************)
(* File-system queries.                                                    *)
(***************************************************************************)
\* what stat() answers for a location that does not exist
NoKey == <<"">>

RECURSIVE Deref(_, _, _)
\* The location stat() reaches from k, following at most n symbolic links
\* (ELOOP beyond), or NoKey.
Deref(f, k, n) ==
    IF k \notin DOMAIN f THEN NoKey
    ELSE IF f[k].kind # "link" THEN k
    ELSE IF n = 0 THEN NoKey
    ELSE Deref(f, f[k].target, n - 1)

\* pathlib.Path.exists: stat() succeeds
SuperExists(f, e, p) == Deref(f, Key(e, p), MaxLinks) # NoKey

\* pathlib.Path.is_symlink: lstat() finds a symbolic link
IsSymlink(f, e, p) == Key(e, p) \in DOMAIN f /\ f[Key(e, p)].kind = "link"

\* Path.exists of copy A: super().exists(), or a broken link
Exists(f, e, p) == SuperExists(f, e, p) \/ IsSymlink(f, e, p)

\* pathlib.Path.is_dir, is_file: what stat() finds, symbolic links followed
IsDir(f, e, p) == SuperExists(f, e, p) /\ f[Deref(f, Key(e, p), MaxLinks)].kind = "dir"

IsFile(f, e, p) == SuperExists(f, e, p) /\ f[Deref(f, Key(e, p), MaxLinks)].kind = "file"

\* The permission class the identity falls in for a node.
ClassOf(n, id) == IF n.owner = id THEN "u" ELSE "o"

\* The kernel's permission check of identity id on an existing node.
Permits(n, id, os_mode) ==
    \/ id = RootUid
    \/ \A b \in os_mode : <<ClassOf(n, id), b>> \in n.mode

\* the location os.access examines: the link itself without follow_symlinks
AccessKey(f, e, p, follow_symlinks) ==
    IF follow_symlinks THEN Deref(f, Key(e, p), MaxLinks)
    ELSE IF Key(e, p) \in DOMAIN f THEN Key(e, p) ELSE NoKey

\* os.access(path, mode, effective_ids=..., follow_symlinks=...): False when
\* there is nothing to examine
OsAccess(f, e, p, os_mode, effective_ids, follow_symlinks) ==
    /\ AccessKey(f, e, p, follow_symlinks) # NoKey
    /\ Permits(f[AccessKey(f, e, p, follow_symlinks)],
               IF effective_ids THEN e.euid ELSE e.uid, os_mode)

\* Path.access without the exists() test: os.access alone
AccessA_OsAccessOnly(f, e, p, os_mode, effective_ids, follow_symlinks) ==
    IF OsAccess(f, e, p, os_mode, effective_ids, follow_symlinks)
    THEN "Allowed" ELSE "Denied"

\* Path.access of copy A: None ("NotFound") when the path does not exist
AccessA(f, e, p, os_mode, effective_ids, follow_symlinks) ==
    IF ~Exists(f, e, p) THEN "NotFound"
    ELSE IF OsAccess(f, e, p, os_mode, effective_ids, follow_symlinks)
    THEN "Allowed" ELSE "Denied"

\* Path.access of copy B: os.access alone, False for a missing path
AccessB(f, e, p, os_mode, effective_ids, follow_symlinks) ==
    OsAccess(f, e, p, os_mode, effective_ids, follow_symlinks)

\* which("sudo"): the escalation command's path, or ""
Which(e) == e.which

(***************************************************************************)
(* Path.sudo, copy A.                                                      *)
(***************************************************************************)
RECURSIVE WalkA(_, _, _, _, _, _)
\* The while loop of Path.sudo: "allowed" when it breaks on a granted probe,
\* "stopped" when it breaks on an existing path or on reaching "/".
WalkA(f, e, path, os_mode, effective_ids, follow_symlinks) ==
    IF AccessA(f, e, path, os_mode, effective_ids, follow_symlinks) = "Allowed"
    THEN "allowed"
    ELSE IF Exists(f, e, path) THEN "stopped"
    ELSE LET next == IF follow_symlinks THEN Absolute(e, Parent(path))
                     ELSE Parent(path)
         IN  IF IsSlash(next) THEN "stopped"
             ELSE WalkA(f, e, next, os_mode, effective_ids, follow_symlinks)

\* Path.sudo with a loop that never clears rv: the prefix whenever installed
SudoRvA_NeverCleared(f, e, self, force, os_mode, effective_ids, follow_symlinks) ==
    Which(e)

\* Path.sudo with a loop that clears rv on a granted probe also under force
SudoRvA_ForceIgnored(f, e, self, force, os_mode, effective_ids, follow_symlinks) ==
    IF Which(e) # "" /\ (IF effective_ids THEN e.euid ELSE e.uid) # RootUid
          /\ WalkA(f, e, self, os_mode, effective_ids, follow_symlinks) = "allowed"
    THEN ""
    ELSE Which(e)

\* The string Path.sudo computes (rv) before the to_list conversion.
SudoRvA(f, e, self, force, os_mode, effective_ids, follow_symlinks) ==
    LET rv == Which(e)
    IN  IF rv # "" /\ (IF effective_ids THEN e.euid ELSE e.uid) # RootUid
        THEN IF WalkA(f, e, self, os_mode, effective_ids, follow_symlinks) = "allowed"
                /\ ~force
             THEN ""
             ELSE rv
        ELSE rv

\* the to_list conversion without its test of rv: [rv]
ToList_Unconditional(rv) == <<rv>>

\* ([rv] if rv else [])
ToList(rv) == IF rv # "" THEN <<rv>> ELSE <<>>

SudoA(f, e, self, force, to_list, os_mode, effective_ids, follow_symlinks) ==
    LET rv == SudoRvA(f, e, self, force, os_mode, effective_ids, follow_symlinks)
    IN  IF to_list THEN ToList(rv) ELSE rv

(***************************************************************************)
(* Path.sudo, copy B.                                                      *)
(***************************************************************************)
RECURSIVE WalkB(_, _, _, _, _, _)
\* "diverges": the loop is back at the same path with nothing changed
\* (p = p.parent for "."), so it never leaves.
WalkB(f, e, p, os_mode, effective_ids, follow_symlinks) ==
    IF SuperExists(f, e, p) /\ AccessB(f, e, p, os_mode, effective_ids, follow_symlinks)
    THEN "allowed"
    ELSE LET next == Parent(p)
         IN  IF next = RootPath THEN "stopped"
             ELSE IF next = p THEN "diverges"
             ELSE WalkB(f, e, next, os_mode, effective_ids, follow_symlinks)

\* Passwd.from_login(): the account of the login name
FromLogin(e) == PasswdOf(e.login)

\* Passwd.from_root()
FromRoot == PasswdOf(RootUid)

SudoRvB(f, e, self, passwd, os_mode, effective_ids, follow_symlinks) ==
    LET pw == IF passwd = NoPasswd THEN FromLogin(e) ELSE passwd
        rv == Which(e)
    IN  IF rv # "" /\ FromRoot # pw
        THEN LET w == WalkB(f, e, self, os_mode, effective_ids, follow_symlinks)
             IN  IF w = "allowed" THEN ""
                 ELSE IF w = "diverges" THEN "diverges"
                 ELSE rv
        ELSE rv

SudoB(f, e, self, passwd, to_list, os_mode, effective_ids, follow_symlinks) ==
    LET rv == SudoRvB(f, e, self, passwd, os_mode, effective_ids, follow_symlinks)
    IN  IF rv = "diverges" THEN rv
        ELSE IF to_list THEN ToList(rv) ELSE rv

(***************************************************************************)
(* The external commands (coreutils run through subprocess.run) and the    *)
(* identity they run as.                                                   *)
(***************************************************************************)
\* A mode argument: None, a numeric mode (all bits given) or a symbolic one
\* that adds bits ("u+s,+x").
NoMode == [kind |-> "none", bits |-> {}]
NumMode(bits) == [kind |-> "num", bits |-> bits]
SymMode(bits) == [kind |-> "sym", bits |-> bits]

ApplyMode(old, m) == IF m.kind = "sym" THEN old \cup m.bits ELSE m.bits

IsPrefixOf(k, q) == Len(k) <= Len(q) /\ SubSeq(q, 1, Len(k)) = k

\* the nearest existing location at or above k
Nearest(f, k) ==
    LET n == CHOOSE i \in 0..Len(k) :
                 /\ SubSeq(k, 1, i) \in DOMAIN f
                 /\ \A j \in (i + 1)..Len(k) : SubSeq(k, 1, j) \notin DOMAIN f
    IN  SubSeq(k, 1, n)

\* k and everything below it
Subtree(f, k) == {q \in DOMAIN f : IsPrefixOf(k, q)}

Cmd(prefix, prog, flags, mode, passwd, src, path) ==
    [prefix |-> prefix, prog |-> prog, flags |-> flags, mode |-> mode,
     passwd |-> passwd, src |-> src, path |-> path, rc |-> 0]

Done(f) == [fs |-> f, rc |-> 0]
Failed(f) == [fs |-> f, rc |-> 1]

\* mkdir without -p: an existing directory is an error
RunMkdir_ExistingFails(f, id, c) ==
    IF c.path \in DOMAIN f \/ c.path = <<>> \/ Front(c.path) \notin DOMAIN f
          \/ f[Front(c.path)].kind # "dir" \/ ~Permits(f[Front(c.path)], id, {W_OK, X_OK})
    THEN Failed(f)
    ELSE Done([q \in DOMAIN f \cup {c.path} |->
                 IF q \in DOMAIN f THEN f[q]
                 ELSE [kind |-> "dir", owner |-> id, content |-> <<>>,
                       mode |-> IF c.mode.kind # "none" THEN ApplyMode(M755, c.mode)
                                ELSE M755]])

\* mkdir -p [-m mode] path, run as id
RunMkdir(f, id, c) ==
    LET k == c.path
        n == Nearest(f, k)
        new == {SubSeq(k, 1, i) : i \in (Len(n) + 1)..Len(k)}
    IN  IF k \in DOMAIN f
        THEN IF f[k].kind = "dir" THEN Done(f) ELSE Failed(f)
        ELSE IF f[n].kind # "dir" \/ ~Permits(f[n], id, {W_OK, X_OK})
        THEN Failed(f)
        ELSE Done([q \in DOMAIN f \cup new |->
                     IF q \in DOMAIN f THEN f[q]
                     ELSE [kind |-> "dir", owner |-> id, content |-> <<>>,
                           mode |-> IF q = k /\ c.mode.kind # "none"
                                    THEN ApplyMode(M755, c.mode) ELSE M755]])

\* touch path, run as id
RunTouch(f, id, c) ==
    LET k == c.path
    IN  IF k \in DOMAIN f
        THEN IF id = f[k].owner \/ Permits(f[k], id, {W_OK}) THEN Done(f) ELSE Failed(f)
        ELSE IF k = <<>> \/ Front(k) \notin DOMAIN f \/ f[Front(k)].kind # "dir"
                \/ ~Permits(f[Front(k)], id, {W_OK, X_OK})
        THEN Failed(f)
        ELSE Done([q \in DOMAIN f \cup {k} |->
                     IF q \in DOMAIN f THEN f[q]
                     ELSE [kind |-> "file", owner |-> id, content |-> <<>>, mode |-> M644]])

\* the paths a command with or without -R works on
Operands(f, c) == IF "-R" \in c.flags THEN Subtree(f, c.path) ELSE {c.path}

\* chmod [-R] mode path, run as id: only the owner or root may change a mode
RunChmod(f, id, c) ==
    IF c.path \notin DOMAIN f THEN Failed(f)
    ELSE LET may == {q \in Operands(f, c) : id = RootUid \/ id = f[q].owner}
             g == [q \in DOMAIN f |->
                     IF q \in may THEN [f[q] EXCEPT !.mode = ApplyMode(@, c.mode)] ELSE f[q]]
         IN  IF may = Operands(f, c) THEN Done(g) ELSE Failed(g)

\* the set-user-ID and set-group-ID bits
SetIdBits == {<<"u", "s">>, <<"g", "s">>}

\* chown(2) on n: the new owner; a regular file loses its set-id bits
Chowned(n, uid) ==
    [n EXCEPT !.owner = uid, !.mode = IF n.kind = "file" THEN @ \ SetIdBits ELSE @]

\* chown [-R] user:group path, run as id: only root may give a file away
RunChown(f, id, c) ==
    IF c.path \notin DOMAIN f THEN Failed(f)
    ELSE LET may == {q \in Operands(f, c) :
                        id = RootUid \/ (id = f[q].owner /\ c.passwd.uid = id)}
             g == [q \in DOMAIN f |->
                     IF q \in may THEN Chowned(f[q], c.passwd.uid) ELSE f[q]]
         IN  IF may = Operands(f, c) THEN Done(g) ELSE Failed(g)

\* rm [-r | -rf] path, run as id
RunRm(f, id, c) ==
    LET k == c.path
        gone == Subtree(f, k)
        \* the directories an entry is removed from
        dirs == {Front(q) : q \in gone}
    IN  IF k \notin DOMAIN f THEN (IF "-rf" \in c.flags THEN Done(f) ELSE Failed(f))
        ELSE IF k = <<>> \/ (f[k].kind = "dir" /\ c.flags \cap {"-r", "-rf"} = {})
        THEN Failed(f)
        ELSE IF \E d \in dirs : ~Permits(f[d], id, {W_OK, X_OK}) THEN Failed(f)
        ELSE Done([q \in DOMAIN f \ gone |-> f[q]])

\* cp: where the copy of the source goes, into an existing directory or onto
\* the destination itself (always the latter with a trailing "/" on the source)
CpTarget(f, c) ==
    IF c.path \in DOMAIN f /\ f[c.path].kind = "dir" /\ "/" \notin c.flags /\ c.src # <<>>
    THEN c.path \o <<c.src[Len(c.src)]>> ELSE c.path

\* cp: the copy under t of the entry q under the source s
CpTo(t, s, q) == t \o SubSeq(q, Len(s) + 1, Len(q))

CpMade(f, t, s) == {CpTo(t, s, q) : q \in Subtree(f, s)}

CpSrc(f, t, s, x) == CHOOSE q \in Subtree(f, s) : CpTo(t, s, q) = x

\* cp: an entry in the way is of the other kind
CpClash(f, t, s) ==
    \E q \in Subtree(f, s) : CpTo(t, s, q) \in DOMAIN f /\ f[CpTo(t, s, q)].kind # f[q].kind

\* cp: what the copy writes into (the directory of a new entry, or the
\* existing entry) denies it
CpDenied(f, id, t, s) ==
    \E x \in CpMade(f, t, s) :
        IF x \in DOMAIN f
        THEN ~Permits(f[x], id, {W_OK})
        ELSE Front(x) \in DOMAIN f /\ ~Permits(f[Front(x)], id, {W_OK, X_OK})

CpNode(f, id, c, q) ==
    [kind |-> f[q].kind, content |-> f[q].content, mode |-> f[q].mode,
     owner |-> IF "-p" \in c.flags /\ id = RootUid THEN f[q].owner ELSE id]

CpInto(f, id, c, s, t) ==
    IF s \notin DOMAIN f \/ ~Permits(f[s], id, {R_OK}) THEN Failed(f)
    ELSE IF f[s].kind = "dir" /\ "-R" \notin c.flags THEN Failed(f)
    ELSE IF f[s].kind = "file" /\ "/" \in c.flags THEN Failed(f)
    ELSE IF t = <<>> \/ (t \notin DOMAIN f /\ (Front(t) \notin DOMAIN f
                                              \/ f[Front(t)].kind # "dir"))
    THEN Failed(f)
    ELSE IF IsPrefixOf(s, t) \/ CpClash(f, t, s) \/ CpDenied(f, id, t, s) THEN Failed(f)
    ELSE Done([x \in DOMAIN f \cup CpMade(f, t, s) |->
                 IF x \notin CpMade(f, t, s) THEN f[x]
                 ELSE IF x \in DOMAIN f
                 THEN [f[x] EXCEPT !.content = f[CpSrc(f, t, s, x)].content]
                 ELSE CpNode(f, id, c, CpSrc(f, t, s, x))])

\* cp [-R] [-L] [-p] src[/] dest, run as id
RunCp(f, id, c) == CpInto(f, id, c, c.src, CpTarget(f, c))

\* the command c run as id
RunAs(f, id, c) ==
    CASE c.prog = "mkdir" -> RunMkdir(f, id, c)
      [] c.prog = "touch" -> RunTouch(f, id, c)
      [] c.prog = "chmod" -> RunChmod(f, id, c)
      [] c.prog = "chown" -> RunChown(f, id, c)
      [] c.prog = "rm" -> RunRm(f, id, c)
      [] c.prog = "cp" -> RunCp(f, id, c)

\* subprocess.run(argv): with the escalation prefix the command runs as root,
\* when the escalation itself is granted; without it, as the effective uid.
Run(f, e, c) ==
    IF c.prefix # <<>> /\ ~e.sudo_ok THEN Failed(f)
    ELSE RunAs(f, IF c.prefix # <<>> THEN RootUid ELSE e.euid, c)

(***************************************************************************)
(* The operations of the mutation engine, copy A.  Each yields the file    *)
(* system it leaves, the commands it issued (with their exit codes), the   *)
(* exception it raised ("none" when it returned) and the path it returns.  *)
(***************************************************************************)
Result(f, cmds, exc, ret) == [fs |-> f, cmds |-> cmds, exc |-> exc, ret |-> ret]

\* the outcome of a subprocess.run: what it left, and the command as issued
\* with the exit code it ended with
Ran(c, r) == [fs |-> r.fs, rc |-> r.rc, cmds |-> <<[c EXCEPT !.rc = r.rc]>>]

Subprocess(f, e, c) == Ran(c, Run(f, e, c))

\* the return of an operation whose last step is the subprocess.run that
\* left x, after the commands cmds; check=True raises on a non-zero exit
Returned(cmds, x, check, ret) ==
    Result(x.fs, cmds \o x.cmds,
           IF check /\ x.rc # 0 THEN "CalledProcessError" ELSE "none", ret)

\* the return of an operation whose last step is the call that returned y
After(cmds, y, ret) == Result(y.fs, cmds \o y.cmds, y.exc, ret)

RECURSIVE FileInParentsWalk(_, _, _)
\* The loop of Path.file_in_parents: the file found among path and its
\* parents, or none.
FileInParentsWalk(f, e, path) ==
    IF IsFile(f, e, path) THEN [found |-> TRUE, path |-> path]
    ELSE IF IsDir(f, e, path) THEN [found |-> FALSE, path |-> path]
    ELSE LET next == Absolute(e, Parent(path))
         IN  IF next = RootPath THEN [found |-> FALSE, path |-> next]
             ELSE FileInParentsWalk(f, e, next)

\* file_in_parents that finds no file
FileInParents_NoFile(f, e, self, follow_symlinks) == [found |-> FALSE, path |-> self]

FileInParents(f, e, self, follow_symlinks) ==
    FileInParentsWalk(f, e, IF follow_symlinks THEN Absolute(e, self) ELSE self)

\* the operand "self.resolve() if follow_symlinks else self"
Operand(e, self, follow_symlinks) == Key(e, self)

ChmodA(f, e, self, mode, effective_ids, exception, follow_symlinks, recursive) ==
    IF exception /\ ~Exists(f, e, self)
    THEN Result(f, <<>>, "FileNotFoundError", self)
    ELSE Returned(<<>>,
                  Subprocess(f, e,
                      Cmd(SudoA(f, e, self, TRUE, TRUE, {W_OK}, effective_ids, follow_symlinks),
                          "chmod",
                          IF recursive /\ IsDir(f, e, self) THEN {"-R"} ELSE {},
                          IF mode # NoMode THEN mode
                          ELSE IF IsDir(f, e, self) THEN NumMode(M755) ELSE NumMode(M644),
                          NoPasswd, <<>>, Operand(e, self, follow_symlinks))),
                  FALSE, self)

ChownA(f, e, self, passwd, effective_ids, exception, follow_symlinks, recursive) ==
    IF exception /\ ~Exists(f, e, self)
    THEN Result(f, <<>>, "FileNotFoundError", self)
    ELSE IF passwd.kind = "str" /\ ~passwd.colon
    THEN Result(f, <<>>, "ValueError", self)
    ELSE Returned(<<>>,
                  Subprocess(f, e,
                      Cmd(SudoA(f, e, self, TRUE, TRUE, {W_OK}, effective_ids, follow_symlinks),
                          "chown",
                          IF recursive /\ IsDir(f, e, self) THEN {"-R"} ELSE {},
                          NoMode,
                          IF passwd = NoPasswd THEN FromLogin(e) ELSE passwd,
                          <<>>, Operand(e, self, follow_symlinks))),
                  TRUE, self)

\* mkdir, after the mkdir command left x: "if passwd is not None: path.chown(...)"
MkdirChown(e, path, passwd, effective_ids, follow_symlinks, x) ==
    IF passwd = NoPasswd THEN Returned(<<>>, x, FALSE, path)
    ELSE After(x.cmds,
               ChownA(x.fs, e, path, passwd, effective_ids, TRUE, follow_symlinks, FALSE),
               path)

\* mkdir without the "not path.is_dir()" test
MkdirPath_NoDirTest(f, e, path, passwd, mode, effective_ids, follow_symlinks) ==
    IF FileInParents(f, e, path, follow_symlinks).found
    THEN Result(f, <<>>, "NotADirectoryError", path)
    ELSE MkdirChown(e, path, passwd, effective_ids, follow_symlinks,
             Subprocess(f, e,
                 Cmd(SudoA(f, e, path, FALSE, TRUE, {W_OK}, effective_ids, follow_symlinks),
                     "mkdir",
                     {"-p"} \cup (IF mode # NoMode THEN {"-m"} ELSE {}),
                     mode, NoPasswd, <<>>, Key(e, path))))

\* mkdir on path == self / name
MkdirPath(f, e, path, passwd, mode, effective_ids, follow_symlinks) ==
    IF IsDir(f, e, path) THEN Result(f, <<>>, "none", path)
    ELSE IF FileInParents(f, e, path, follow_symlinks).found
    THEN Result(f, <<>>, "NotADirectoryError", path)
    ELSE MkdirChown(e, path, passwd, effective_ids, follow_symlinks,
             Subprocess(f, e,
                 Cmd(SudoA(f, e, path, FALSE, TRUE, {W_OK}, effective_ids, follow_symlinks),
                     "mkdir",
                     {"-p"} \cup (IF mode # NoMode THEN {"-m"} ELSE {}),
                     mode, NoPasswd, <<>>, Key(e, path))))

MkdirA(f, e, self, name, passwd, mode, effective_ids, follow_symlinks) ==
    MkdirPath(f, e,
              IF follow_symlinks THEN Absolute(e, Join(self, name)) ELSE Join(self, name),
              passwd, mode, effective_ids, follow_symlinks)

\* touch whose last step is "path.chown(...)" whatever passwd is
TouchChown_Always(e, path, passwd, effective_ids, follow_symlinks, cmds, cm) ==
    IF cm.exc # "none" THEN After(cmds, cm, path)
    ELSE After(cmds \o cm.cmds,
               ChownA(cm.fs, e, path, passwd, effective_ids, TRUE, follow_symlinks, FALSE),
               path)

\* touch, last step: "if passwd is not None: path.chown(...)", after
\* path.chmod returned cm and the commands cmds had been issued before it
TouchChown(e, path, passwd, effective_ids, follow_symlinks, cmds, cm) ==
    IF cm.exc # "none" \/ passwd = NoPasswd THEN After(cmds, cm, path)
    ELSE After(cmds \o cm.cmds,
               ChownA(cm.fs, e, path, passwd, effective_ids, TRUE, follow_symlinks, FALSE),
               path)

\* touch, after the touch command left x: check=True, "path.chmod(mode)"
TouchChmod(e, path, passwd, mode, effective_ids, follow_symlinks, cmds, x) ==
    IF x.rc # 0 THEN Returned(cmds, x, TRUE, path)
    ELSE TouchChown(e, path, passwd, effective_ids, follow_symlinks, cmds \o x.cmds,
                    ChmodA(x.fs, e, path, mode, effective_ids, TRUE, follow_symlinks, FALSE))

\* touch, the touch command itself, after the creation of the parent
\* directory returned mk
TouchRun(e, path, passwd, mode, effective_ids, follow_symlinks, mk) ==
    IF mk.exc # "none" THEN After(<<>>, mk, path)
    ELSE TouchChmod(e, path, passwd, mode, effective_ids, follow_symlinks, mk.cmds,
             Subprocess(mk.fs, e,
                 Cmd(SudoA(mk.fs, e, path, FALSE, TRUE, {W_OK}, effective_ids,
                           follow_symlinks),
                     "touch", {}, NoMode, NoPasswd, <<>>, Key(e, path))))

\* touch on path == (self / name).absolute(), d == path.parent
TouchPath(f, e, path, d, passwd, mode, effective_ids, follow_symlinks) ==
    IF IsFile(f, e, path) \/ IsDir(f, e, path) THEN Result(f, <<>>, "none", path)
    ELSE IF FileInParents(f, e, d, follow_symlinks).found
    THEN Result(f, <<>>, "NotADirectoryError", path)
    ELSE TouchRun(e, path, passwd, mode, effective_ids, follow_symlinks,
                  IF ~Exists(f, e, d)
                  THEN MkdirA(f, e, d, <<>>, NoPasswd, mode, effective_ids, follow_symlinks)
                  ELSE Result(f, <<>>, "none", d))

TouchA(f, e, self, name, passwd, mode, effective_ids, follow_symlinks) ==
    TouchPath(f, e, Absolute(e, Join(self, name)), Parent(Absolute(e, Join(self, name))),
              passwd, mode, effective_ids, follow_symlinks)

\* cp without the "not self.exists()" test
CpA_NoExistsTest(f, e, self, dest, contents, effective_ids, follow_symlinks, preserve) ==
    Returned(<<>>,
             Subprocess(f, e,
                 Cmd(SudoA(f, e, dest, FALSE, TRUE, {W_OK}, effective_ids, follow_symlinks),
                     "cp",
                     (IF IsDir(f, e, self) THEN {"-R"} ELSE {})
                         \cup (IF follow_symlinks THEN {"-L"} ELSE {})
                         \cup (IF preserve THEN {"-p"} ELSE {})
                         \cup (IF contents THEN {"/"} ELSE {}),
                     NoMode, NoPasswd, Key(e, self), Key(e, dest))),
             TRUE, dest)

CpA(f, e, self, dest, contents, effective_ids, follow_symlinks, preserve) ==
    IF ~Exists(f, e, self) THEN Result(f, <<>>, "FileNotFoundError", dest)
    ELSE Returned(<<>>,
                  Subprocess(f, e,
                      Cmd(SudoA(f, e, dest, FALSE, TRUE, {W_OK}, effective_ids, follow_symlinks),
                          "cp",
                          (IF IsDir(f, e, self) THEN {"-R"} ELSE {})
                              \cup (IF follow_symlinks THEN {"-L"} ELSE {})
                              \cup (IF preserve THEN {"-p"} ELSE {})
                              \cup (IF contents THEN {"/"} ELSE {}),
                          NoMode, NoPasswd, Key(e, self), Key(e, dest))),
                  TRUE, dest)

\* rm on path == self.add(*args)
RmPath(f, e, self, path, effective_ids, follow_symlinks) ==
    IF Exists(f, e, path)
    THEN Returned(<<>>,
                  Subprocess(f, e,
                      Cmd(SudoA(f, e, path, TRUE, TRUE, {W_OK}, effective_ids, follow_symlinks),
                          "rm",
                          IF IsDir(f, e, self) THEN {"-rf"} ELSE {},
                          NoMode, NoPasswd, <<>>, Operand(e, path, follow_symlinks))),
                  FALSE, self)
    ELSE Result(f, <<>>, "none", self)

RmA(f, e, self, args, effective_ids, follow_symlinks, missing_ok) ==
    IF ~missing_ok /\ ~Exists(f, e, self)
    THEN Result(f, <<>>, "FileNotFoundError", self)
    ELSE RmPath(f, e, self, Join(self, args), effective_ids, follow_symlinks)

\* One call of an operation, from the record of its arguments.
ApplyOp(f, e, a) ==
    CASE a.op = "mkdir" -> MkdirA(f, e, a.self, a.name, a.passwd, a.mode,
                                  a.effective_ids, a.follow_symlinks)
      [] a.op = "touch" -> TouchA(f, e, a.self, a.name, a.passwd, a.mode,
                                  a.effective_ids, a.follow_symlinks)
      [] a.op = "chmod" -> ChmodA(f, e, a.self, a.mode, a.effective_ids, a.exception,
                                  a.follow_symlinks, a.recursive)
      [] a.op = "chown" -> ChownA(f, e, a.self, a.passwd, a.effective_ids, a.exception,
                                  a.follow_symlinks, a.recursive)
      [] a.op = "cp" -> CpA(f, e, a.self, a.dest, a.contents, a.effective_ids,
                            a.follow_symlinks, a.preserve)
      [] a.op = "rm" -> RmA(f, e, a.self, a.name, a.effective_ids, a.follow_symlinks,
                            a.missing_ok)
      [] a.op = "sudo" -> Result(f, <<>>, "none",
                                 SudoA(f, e, a.self, a.force, a.to_list, a.os_mode,
                                       a.effective_ids, a.follow_symlinks))

(***************************************************************************)
(* Path.checksum and Path.cmp (the same code in both copies).              *)
(***************************************************************************)
Min(a, b) == IF a <= b THEN a ELSE b

\* a single f.read(block_size)
ReadBlocks_FirstOnly(content, block_size) ==
    IF content = <<>> THEN <<>>
    ELSE <<SubSeq(content, 1, IF block_size <= Len(content) THEN block_size
                              ELSE Len(content))>>

RECURSIVE ReadBlocks(_, _)
\* iter(lambda: f.read(block_size), b''): the blocks read until the empty one
ReadBlocks(content, block_size) ==
    IF content = <<>> THEN <<>>
    ELSE <<SubSeq(content, 1, Min(block_size, Len(content)))>>
             \o ReadBlocks(SubSeq(content, Min(block_size, Len(content)) + 1, Len(content)),
                           block_size)

RECURSIVE Updated(_, _)
\* sha.update(block) for every block: the bytes the hash was fed, in order
Updated(fed, blocks) ==
    IF blocks = <<>> THEN fed ELSE Updated(fed \o blocks[1], SubSeq(blocks, 2, Len(blocks)))

\* sha.hexdigest(): SHA-256 as a function of the bytes fed, without collisions
HexDigest(fed) == [algorithm |-> "sha256", of |-> fed]

\* Path.checksum: open('rb') follows links, fails on a missing path, on a
\* directory and on a file the effective uid may not read
Checksum(f, e, self, block_size) ==
    LET k == Deref(f, Key(e, self), MaxLinks)
    IN  IF k = NoKey THEN [exc |-> "FileNotFoundError", sum |-> HexDigest(<<>>)]
        ELSE IF f[k].kind = "dir" THEN [exc |-> "IsADirectoryError", sum |-> HexDigest(<<>>)]
        ELSE IF ~Permits(f[k], e.euid, {R_OK})
        THEN [exc |-> "PermissionError", sum |-> HexDigest(<<>>)]
        ELSE [exc |-> "none",
              sum |-> HexDigest(Updated(<<>>, ReadBlocks(f[k].content, block_size)))]

\* "self.checksum() == other.checksum()", a and b being the two checksums
CmpSums(a, b) ==
    IF a.exc # "none" THEN [exc |-> a.exc, ret |-> FALSE]
    ELSE IF b.exc # "none" THEN [exc |-> b.exc, ret |-> FALSE]
    ELSE [exc |-> "none", ret |-> a.sum = b.sum]

Cmp(f, e, self, other) ==
    CmpSums(Checksum(f, e, self, BlockSize), Checksum(f, e, other, BlockSize))

(***************************************************************************)
(* Path.setid, copy A and copy B.                                          *)
(***************************************************************************)
\* name=None
NoName == ""

\* pathlib's with_name
WithName(self, name) == [self EXCEPT !.parts = Front(@) \o <<name>>]

\* the chmod argument "u+s,+x" or "g+s,+x"
SetIdMode(uid) ==
    SymMode({<<IF uid THEN "u" ELSE "g", "s">>} \cup Bits({"u", "g", "o"}, {"x"}))

\* "st_mode & mod == mod"
HasMod(n, uid) == SetIdMode(uid).bits \subseteq n.mode

\* setid, second command: target.chmod(...), after target.chown returned co
SetidChmod(e, target, uid, effective_ids, follow_symlinks, cmds, co) ==
    IF co.exc # "none" THEN After(cmds, co, target)
    ELSE After(cmds \o co.cmds,
               ChmodA(co.fs, e, target, SetIdMode(uid), effective_ids, TRUE,
                      follow_symlinks, TRUE),
               target)

\* setid: "if target.owner() != 'root': change = True" and "if change:"
SetidChange(f, e, target, uid, effective_ids, follow_symlinks, cmds, change) ==
    IF Deref(f, Key(e, target), MaxLinks) = NoKey
    THEN Result(f, cmds, "FileNotFoundError", target)
    ELSE IF ~change /\ f[Deref(f, Key(e, target), MaxLinks)].owner = RootUid
    THEN Result(f, cmds, "none", target)
    ELSE SetidChmod(e, target, uid, effective_ids, follow_symlinks, cmds,
                    ChownA(f, e, target, FromRoot, FALSE, TRUE, follow_symlinks, FALSE))

\* setid, after self.cp(target) returned cp: "change = True"
SetidCopied(e, target, uid, effective_ids, follow_symlinks, cp) ==
    IF cp.exc # "none" THEN After(<<>>, cp, target)
    ELSE SetidChange(cp.fs, e, target, uid, effective_ids, follow_symlinks, cp.cmds, TRUE)

\* setid that copies whenever a name is given, without comparing
SetidTarget_AlwaysCopies(f, e, self, target, name, uid, effective_ids, follow_symlinks, c) ==
    IF name # NoName
    THEN SetidCopied(e, target, uid, effective_ids, follow_symlinks,
                     CpA(f, e, self, target, FALSE, effective_ids, follow_symlinks, FALSE))
    ELSE IF Key(e, target) \notin DOMAIN f
    THEN Result(f, <<>>, "FileNotFoundError", target)
    ELSE SetidChange(f, e, target, uid, effective_ids, follow_symlinks, <<>>,
                     ~HasMod(f[Key(e, target)], uid))

\* setid on target, c being what self.cmp(target) answers
SetidTarget(f, e, self, target, name, uid, effective_ids, follow_symlinks, c) ==
    IF name # NoName /\ ~Exists(f, e, target)
    THEN SetidCopied(e, target, uid, effective_ids, follow_symlinks,
                     CpA(f, e, self, target, FALSE, effective_ids, follow_symlinks, FALSE))
    ELSE IF name # NoName /\ c.exc # "none" THEN Result(f, <<>>, c.exc, target)
    ELSE IF name # NoName /\ ~c.ret
    THEN SetidCopied(e, target, uid, effective_ids, follow_symlinks,
                     CpA(f, e, self, target, FALSE, effective_ids, follow_symlinks, FALSE))
    ELSE IF Key(e, target) \notin DOMAIN f
    THEN Result(f, <<>>, "FileNotFoundError", target)
    ELSE SetidChange(f, e, target, uid, effective_ids, follow_symlinks, <<>>,
                     ~HasMod(f[Key(e, target)], uid))

\* the target of setid: "self.with_name(name) if name else self"
SetidName(self, name) == IF name # NoName THEN WithName(self, name) ELSE self

SetidA(f, e, self, name, uid, effective_ids, follow_symlinks) ==
    SetidTarget(f, e, self, SetidName(self, name), name, uid, effective_ids,
                follow_symlinks, Cmp(f, e, self, SetidName(self, name)))

\* a step of a shell "&&" list: c runs when everything before it exited 0
AndThen(cmds, y) == [y EXCEPT !.cmds = cmds \o @]

\* a step of a shell ";" list: c runs whatever came before it
ShellAnd_Semicolon(e, x, c) == AndThen(x.cmds, Subprocess(x.fs, e, c))

ShellAnd(e, x, c) == IF x.rc # 0 THEN x ELSE AndThen(x.cmds, Subprocess(x.fs, e, c))

\* copy B, "cp -R self target && chown -R 0:0 target && chmod -R ... target",
\* every command behind the prefix sudo
SetidChainB(f, e, self, target, uid, sudo) ==
    ShellAnd(e,
        ShellAnd(e,
            Subprocess(f, e, Cmd(sudo, "cp", {"-R"}, NoMode, NoPasswd,
                                 Key(e, self), Key(e, target))),
            Cmd(sudo, "chown", {"-R"}, NoMode, FromRoot, <<>>, Key(e, target))),
        Cmd(sudo, "chmod", {"-R"}, SetIdMode(uid), NoPasswd, <<>>, Key(e, target)))

\* copy B setid on target, c being what self.cmp(target) answers
SetidTargetB(f, e, self, target, name, uid, sudo, c) ==
    IF name # NoName /\ ~SuperExists(f, e, target)
    THEN Returned(<<>>, SetidChainB(f, e, self, target, uid, sudo), TRUE, target)
    ELSE IF name # NoName /\ c.exc # "none" THEN Result(f, <<>>, c.exc, target)
    ELSE IF name # NoName /\ ~c.ret
    THEN Returned(<<>>, SetidChainB(f, e, self, target, uid, sudo), TRUE, target)
    ELSE IF ~SuperExists(f, e, target) THEN Result(f, <<>>, "FileNotFoundError", target)
    ELSE IF ~HasMod(f[Deref(f, Key(e, target), MaxLinks)], uid)
    THEN Returned(<<>>,
                  Subprocess(f, e, Cmd(sudo, "chmod", {"-R"}, SetIdMode(uid), NoPasswd,
                                       <<>>, Key(e, target))),
                  TRUE, target)
    ELSE Result(f, <<>>, "none", target)

SetidB(f, e, self, name, uid) ==
    SetidTargetB(f, e, self, SetidName(self, name), name, uid,
                 ToList(SudoB(f, e, SetidName(self, name), FromRoot, FALSE, {W_OK},
                              FALSE, TRUE)),
                 Cmp(f, e, self, SetidName(self, name)))

(***************************************************************************)
(* Path.rm, copy B.                                                        *)
(***************************************************************************)
\* copy B rm on path == self.add(*args): the command names self
RmPathB(f, e, self, path) ==
    IF SuperExists(f, e, path)
    THEN Returned(<<>>,
                  Subprocess(f, e,
                      Cmd(SudoB(f, e, self, FromRoot, TRUE, {W_OK}, FALSE, TRUE),
                          "rm",
                          IF IsDir(f, e, self) THEN {"-r"} ELSE {},
                          NoMode, NoPasswd, <<>>, Key(e, self))),
                  FALSE, self)
    ELSE Result(f, <<>>, "none", self)

\* a bare "raise" with no exception being handled is a RuntimeError
RmB(f, e, self, args, missing_ok) ==
    IF ~missing_ok /\ ~SuperExists(f, e, self)
    THEN Result(f, <<>>, "RuntimeError", self)
    ELSE RmPathB(f, e, self, Join(self, args))

(***************************************************************************)
(* Path.cp, copy B.                                                        *)
(***************************************************************************)
\* what a method without a return statement returns
PyNone == [abs |-> FALSE, parts |-> <<>>, none |-> TRUE]

\* copy B cp, sudo being dest.sudo(to_list=True): "cp -R dest", the source is
\* not among the operands
CpWithB(f, e, dest, sudo) ==
    IF sudo = "diverges" THEN Result(f, <<>>, "diverges", PyNone)
    ELSE Returned(<<>>,
                  Subprocess(f, e, Cmd(sudo, "cp", {"-R"}, NoMode, NoPasswd, NoKey,
                                       Key(e, dest))),
                  TRUE, PyNone)

CpB(f, e, self, dest) ==
    CpWithB(f, e, dest, SudoB(f, e, dest, NoPasswd, TRUE, {W_OK}, FALSE, TRUE))

(***************************************************************************)
(* Path.chown and Path.mkdir, copy B.                                      *)
(***************************************************************************)
ChownB(f, e, self, passwd) ==
    Returned(<<>>,
             Subprocess(f, e,
                 Cmd(SudoB(f, e, self, FromRoot, TRUE, {W_OK}, FALSE, TRUE),
                     "chown", {}, NoMode, passwd, <<>>, Key(e, self))),
             TRUE, self)

\* copy B mkdir, after the mkdir command left x: "p.chown(passwd=passwd)"
\* with passwd = passwd or Passwd.from_login()
MkdirChownB(e, p, passwd, x) ==
    After(x.cmds, ChownB(x.fs, e, p, IF passwd = NoPasswd THEN FromLogin(e) ELSE passwd), p)

\* copy B mkdir on p == (self / name).resolve(), sudo being self.sudo(...)
MkdirPathB(f, e, p, passwd, mode, sudo) ==
    IF IsDir(f, e, p) THEN MkdirChownB(e, p, passwd, [fs |-> f, rc |-> 0, cmds |-> <<>>])
    ELSE IF FileInParentsWalk(f, e, p).found
    THEN Result(f, <<>>, "NotADirectoryError", p)
    ELSE IF sudo = "diverges" THEN Result(f, <<>>, "diverges", p)
    ELSE MkdirChownB(e, p, passwd,
             Subprocess(f, e, Cmd(sudo, "mkdir",
                                  {"-p"} \cup (IF mode # NoMode THEN {"-m"} ELSE {}),
                                  mode, NoPasswd, <<>>, Key(e, p))))

MkdirB(f, e, self, name, passwd, mode, effective_ids) ==
    MkdirPathB(f, e, Absolute(e, Join(self, name)), passwd, mode,
               SudoB(f, e, self, NoPasswd, TRUE, {W_OK}, effective_ids, TRUE))

(***************************************************************************)
(* The resolver specification: the file system is one ancestor chain       *)
(* /1/2/3..., existing down to some depth, with every combination of       *)
(* owner and mode along it; one call of Path.sudo is made on it.           *)
(***************************************************************************)
NameSeq == <<"1", "2", "3", "4", "5", "6", "7.py", "8", "9.py", "10", "11">>

Prefix(i) == SubSeq(NameSeq, 1, i)

Node(kind, owner, mode) == [kind |-> kind, owner |-> owner, mode |-> mode, content |-> <<>>]

\* owner and mode of the nodes of the chain below "/": of root and closed to
\* others (700), of root and readable by others (755), of the user (755)
ChainNodes ==
    {Node(k, om[1], om[2]) : k \in {"dir", "file"},
                             om \in {<<RootUid, M700>>, <<RootUid, M755>>, <<UserUid, M755>>}}

\* "/" is root's, and writable by all (777) or by root only (755)
SlashNodes == {Node("dir", RootUid, m) : m \in {M755, M777}}

\* Every directory on the way to an existing path exists and is a directory.
WellFormed(f) ==
    /\ <<>> \in DOMAIN f /\ f[<<>>].kind = "dir"
    /\ \A q \in DOMAIN f : q # <<>> =>
          /\ Front(q) \in DOMAIN f
          /\ f[Front(q)].kind = "dir"

\* the file systems that hold the chain /1/2/... down to some depth <= d
ChainFSOf(d) ==
    {f \in UNION {[{Prefix(i) : i \in 0..k} -> ChainNodes \cup SlashNodes] : k \in 0..d} :
        /\ WellFormed(f)
        /\ \A q \in DOMAIN f : IF q = <<>> THEN f[q] \in SlashNodes ELSE f[q] \in ChainNodes}

ChainFS == ChainFSOf(MaxDepth)

\* (uid, euid, login): a user; root; a user's sudo session; a set-user-ID
\* root executable started by a user; a root login that became a user (su).
Identities ==
    {<<UserUid, UserUid, UserUid>>, <<RootUid, RootUid, RootUid>>,
     <<RootUid, RootUid, UserUid>>, <<UserUid, RootUid, UserUid>>,
     <<UserUid, UserUid, RootUid>>}

Env(which, id, cwd, sudo_ok) ==
    [which |-> which, uid |-> id[1], euid |-> id[2], login |-> id[3],
     cwd |-> cwd, sudo_ok |-> sudo_ok]

\* The working directory exists and is a directory.
ChainCwd(f) == IF Prefix(1) \in DOMAIN f /\ f[Prefix(1)].kind = "dir" THEN Prefix(1) ELSE <<>>

\* The targets: every path of the chain, absolute or relative to the
\* working directory.
ChainPaths(e) ==
    {AbsPath(Prefix(i)) : i \in 0..MaxDepth}
        \cup {RelPath(SubSeq(NameSeq, Len(e.cwd) + 1, i)) : i \in Len(e.cwd)..MaxDepth}

OsModes == {{W_OK}, {R_OK}}

NoCall == [op |-> "none"]

InitResolver ==
    /\ fs \in ChainFS
    /\ env \in {Env(w, id, ChainCwd(fs), TRUE) : w \in {"", SudoBin}, id \in Identities}
    /\ call = NoCall

CallSudoA ==
    /\ call = NoCall
    /\ \E self \in ChainPaths(env), force \in BOOLEAN, to_list \in BOOLEAN,
          os_mode \in OsModes, effective_ids \in BOOLEAN, follow_symlinks \in BOOLEAN :
          call' = [op |-> "sudoA", self |-> self, force |-> force, to_list |-> to_list,
                   os_mode |-> os_mode, effective_ids |-> effective_ids,
                   follow_symlinks |-> follow_symlinks,
                   result |-> SudoA(fs, env, self, force, to_list, os_mode,
                                    effective_ids, follow_symlinks)]
    /\ UNCHANGED <<fs, env>>

CallSudoB ==
    /\ call = NoCall
    /\ \E self \in ChainPaths(env), passwd \in {NoPasswd} \cup {PasswdOf(u) : u \in Uids},
          to_list \in BOOLEAN, os_mode \in OsModes, effective_ids \in BOOLEAN :
          call' = [op |-> "sudoB", self |-> self, passwd |-> passwd, to_list |-> to_list,
                   os_mode |-> os_mode, effective_ids |-> effective_ids,
                   follow_symlinks |-> TRUE,
                   result |-> SudoB(fs, env, self, passwd, to_list, os_mode,
                                    effective_ids, TRUE)]
    /\ UNCHANGED <<fs, env>>

NextResolver == CallSudoA \/ CallSudoB

SpecResolver == InitResolver /\ [][NextResolver]_vars

(***************************************************************************)
(* The engine specification: on a file system that holds part of the chain *)
(* /1/2/..., one operation of copy A (or its Path.sudo) is called with     *)
(* arguments drawn from small sets, and then once more with the same ones. *)
(***************************************************************************)
Names == {"1", "2"}

\* the paths below "/" the operations are called on
Targets == UNION {[1..n -> Names] : n \in 1..TreeDepth}

EngineEnvs ==
    {Env(w[1], id, <<>>, w[2]) :
        w \in {<<"", FALSE>>, <<SudoBin, FALSE>>, <<SudoBin, TRUE>>},
        id \in {<<UserUid, UserUid, UserUid>>, <<RootUid, RootUid, RootUid>>,
                <<UserUid, RootUid, UserUid>>}}

\* effective_ids changes nothing unless the two uids differ
EffChoices(e) == IF e.uid = e.euid THEN {FALSE} ELSE BOOLEAN

PasswdArgs == {NoPasswd, PasswdOf(RootUid), PasswdOf(UserUid)}

SetUidMode == SymMode({<<"u", "s">>} \cup Bits({"u", "g", "o"}, {"x"}))

Last(s) == s[Len(s)]

InitEngine ==
    /\ fs \in ChainFSOf(TreeDepth)
    /\ env \in EngineEnvs
    /\ call = NoCall

\* The call with arguments a returned r: the first call or the repeated one;
\* pre keeps the file system the call started on.
Called(a, repeat, r) ==
    /\ fs' = r.fs
    /\ call' = [op |-> a.op, a |-> a, exc |-> r.exc, cmds |-> r.cmds, ret |-> r.ret,
                repeat |-> repeat, pre |-> fs]
    /\ UNCHANGED env

Call(a) == Called(a, FALSE, ApplyOp(fs, env, a))

DoMkdir ==
    /\ call = NoCall
    /\ \E t \in Targets, passwd \in PasswdArgs, mode \in {NoMode, NumMode(M700)},
          effective_ids \in EffChoices(env) :
          Call([op |-> "mkdir", self |-> AbsPath(Front(t)), name |-> <<Last(t)>>,
                passwd |-> passwd, mode |-> mode, effective_ids |-> effective_ids,
                follow_symlinks |-> FALSE])

DoTouch ==
    /\ call = NoCall
    /\ \E t \in Targets, passwd \in PasswdArgs, mode \in {NoMode, NumMode(M700)},
          effective_ids \in EffChoices(env) :
          Call([op |-> "touch", self |-> AbsPath(Front(t)), name |-> <<Last(t)>>,
                passwd |-> passwd, mode |-> mode, effective_ids |-> effective_ids,
                follow_symlinks |-> FALSE])

DoChmod ==
    /\ call = NoCall
    /\ \E t \in Targets, mode \in {NoMode, NumMode(M700), SetUidMode},
          effective_ids \in EffChoices(env), exception \in BOOLEAN, recursive \in BOOLEAN :
          Call([op |-> "chmod", self |-> AbsPath(t), mode |-> mode,
                effective_ids |-> effective_ids, exception |-> exception,
                follow_symlinks |-> FALSE, recursive |-> recursive])

DoChown ==
    /\ call = NoCall
    /\ \E t \in Targets,
          passwd \in PasswdArgs \cup {PasswdStr(RootUid, TRUE), PasswdStr(RootUid, FALSE)},
          effective_ids \in EffChoices(env), exception \in BOOLEAN, recursive \in BOOLEAN :
          Call([op |-> "chown", self |-> AbsPath(t), passwd |-> passwd,
                effective_ids |-> effective_ids, exception |-> exception,
                follow_symlinks |-> FALSE, recursive |-> recursive])

DoCp ==
    /\ call = NoCall
    /\ \E t \in Targets, dest \in Targets, contents \in BOOLEAN, preserve \in BOOLEAN,
          effective_ids \in EffChoices(env) :
          Call([op |-> "cp", self |-> AbsPath(t), dest |-> AbsPath(dest),
                contents |-> contents, effective_ids |-> effective_ids,
                follow_symlinks |-> FALSE, preserve |-> preserve])

DoRm ==
    /\ call = NoCall
    /\ \E t \in Targets, name \in {<<>>} \cup {<<n>> : n \in Names},
          effective_ids \in EffChoices(env), missing_ok \in BOOLEAN :
          Call([op |-> "rm", self |-> AbsPath(t), name |-> name,
                effective_ids |-> effective_ids, follow_symlinks |-> FALSE,
                missing_ok |-> missing_ok])

DoSudo ==
    /\ call = NoCall
    /\ \E t \in Targets, force \in BOOLEAN, to_list \in BOOLEAN, os_mode \in OsModes,
          effective_ids \in EffChoices(env) :
          Call([op |-> "sudo", self |-> AbsPath(t), force |-> force, to_list |-> to_list,
                os_mode |-> os_mode, effective_ids |-> effective_ids,
                follow_symlinks |-> FALSE])

\* the same call once more, on the file system the first one left
Repeat ==
    /\ call # NoCall
    /\ ~call.repeat
    /\ Called(call.a, TRUE, ApplyOp(fs, env, call.a))

Next == DoMkdir \/ DoTouch \/ DoChmod \/ DoChown \/ DoCp \/ DoRm \/ DoSudo \/ Repeat

Spec == InitEngine /\ [][Next]_vars

(***************************************************************************)
(* The scenario specification: in an empty temporary directory t of the    *)
(* caller, t('1/../k') makes directories, t('1/../m', file) then touches   *)
(* a file below them and t('1/../m/../n', file) touches below that file.   *)
(***************************************************************************)
\* the temporary directory
TempDir == <<"t">>

\* Path.tempdir(): a directory of the caller (700, or 755 after a chmod),
\* or one that is open to everybody
TempNodes(id) == {Node("dir", id, M700), Node("dir", id, M755), Node("dir", RootUid, M777)}

\* an ordinary user or root, with or without the escalation command; root's
\* own escalation is always granted
ScenarioEnvs ==
    {Env(w[1], <<UserUid, UserUid, UserUid>>, <<>>, w[2]) :
        w \in {<<"", FALSE>>, <<SudoBin, FALSE>>, <<SudoBin, TRUE>>}}
      \cup {Env(w, <<RootUid, RootUid, RootUid>>, <<>>, TRUE) : w \in {"", SudoBin}}

InitScenario ==
    /\ env \in ScenarioEnvs
    /\ fs \in {[q \in {<<>>, TempDir} |-> IF q = <<>> THEN s ELSE n] :
                  s \in SlashNodes, n \in TempNodes(env.euid)}
    /\ call = NoCall

\* Path.__call__: mkdir for PIs.IS_DIR, touch for PIs.IS_FILE
CallArgs(file, name) ==
    [op |-> IF file THEN "touch" ELSE "mkdir", self |-> AbsPath(TempDir), name |-> name,
     passwd |-> NoPasswd, mode |-> NoMode, effective_ids |-> FALSE,
     follow_symlinks |-> FALSE]

\* step of the scenario; dirs and file are the depths given to the first
\* and to the second call
Stepped(step, dirs, file, a, r) ==
    /\ fs' = r.fs
    /\ call' = [op |-> a.op, a |-> a, exc |-> r.exc, cmds |-> r.cmds, ret |-> r.ret,
                step |-> step, dirs |-> dirs, file |-> file, pre |-> fs]
    /\ UNCHANGED env

ScenarioMkdir ==
    /\ call = NoCall
    /\ \E k \in 1..(ScenarioDepth - 2) :
          Stepped(1, k, k, CallArgs(FALSE, Prefix(k)),
                  ApplyOp(fs, env, CallArgs(FALSE, Prefix(k))))

ScenarioTouch ==
    /\ call # NoCall
    /\ call.step = 1
    /\ \E m \in (call.dirs + 1)..(ScenarioDepth - 1) :
          Stepped(2, call.dirs, m, CallArgs(TRUE, Prefix(m)),
                  ApplyOp(fs, env, CallArgs(TRUE, Prefix(m))))

ScenarioTouchBelowFile ==
    /\ call # NoCall
    /\ call.step = 2
    /\ \E n \in (call.file + 1)..ScenarioDepth :
          Stepped(3, call.dirs, call.file, CallArgs(TRUE, Prefix(n)),
                  ApplyOp(fs, env, CallArgs(TRUE, Prefix(n))))

NextScenario == ScenarioMkdir \/ ScenarioTouch \/ ScenarioTouchBelowFile

SpecScenario == InitScenario /\ [][NextScenario]_vars

(***************************************************************************)
(* The access specification: "/" holds files, directories and symbolic     *)
(* links (to each other, to themselves, to nothing); one call of           *)
(* Path.access of copy A is made on a name in it.                          *)
(***************************************************************************)
AccessNames == {"a", "b"}

\* the names a link may point to: "c" is never there
LinkNames == AccessNames \cup {"c"}

LinkNode(owner, target) ==
    [kind |-> "link", owner |-> owner, mode |-> M777, content |-> <<>>, target |-> target]

AccessEntries == ChainNodes \cup {LinkNode(o, <<t>>) : o \in Uids, t \in LinkNames}

AccessFS ==
    {f \in UNION {[{<<>>} \cup {<<n>> : n \in S} -> AccessEntries \cup SlashNodes] :
                      S \in SUBSET AccessNames} :
        \A q \in DOMAIN f : IF q = <<>> THEN f[q] \in SlashNodes ELSE f[q] \in AccessEntries}

InitAccess ==
    /\ fs \in AccessFS
    /\ env \in {Env(SudoBin, id, <<>>, TRUE) : id \in Identities}
    /\ call = NoCall

CallAccess ==
    /\ call = NoCall
    /\ \E n \in LinkNames, os_mode \in OsModes, effective_ids \in BOOLEAN,
          follow_symlinks \in BOOLEAN :
          call' = [op |-> "access", self |-> AbsPath(<<n>>), os_mode |-> os_mode,
                   effective_ids |-> effective_ids, follow_symlinks |-> follow_symlinks,
                   result |-> AccessA(fs, env, AbsPath(<<n>>), os_mode, effective_ids,
                                      follow_symlinks)]
    /\ UNCHANGED <<fs, env>>

NextAccess == CallAccess

SpecAccess == InitAccess /\ [][NextAccess]_vars

(***************************************************************************)
(* The set-id specification: below "/" a source /a and a target /b, each   *)
(* absent or present with some owner, mode and content; a.setid() or       *)
(* a.setid('b') of copy A or of copy B is called, and then once more.      *)
(***************************************************************************)
M4755 == M755 \cup {<<"u", "s">>}
M2755 == M755 \cup {<<"g", "s">>}

FileNode(owner, mode, content) ==
    [kind |-> "file", owner |-> owner, mode |-> mode, content |-> content]

Absent == [kind |-> "none"]

SetidContents == {<<0>>, <<1>>}

SetidSources ==
    {FileNode(o, m, c) : o \in Uids, m \in {M644, M4755}, c \in SetidContents}

SetidTargets ==
    {FileNode(o, m, c) : o \in Uids, m \in {M644, M755, M4755, M2755}, c \in SetidContents}
        \cup {Node("dir", o, M755) : o \in Uids}

SetidSelf == AbsPath(<<"a">>)
SetidOther == "b"

\* "/" holding a at /a and b at /b, when they are not Absent
SetidTree(r, a, b) ==
    [q \in {<<>>} \cup (IF a # Absent THEN {<<"a">>} ELSE {})
                  \cup (IF b # Absent THEN {<<SetidOther>>} ELSE {}) |->
        IF q = <<>> THEN r ELSE IF q = <<"a">> THEN a ELSE b]

SetidFS ==
    {SetidTree(r, a, b) : r \in {Node("dir", RootUid, M755), Node("dir", RootUid, M777)},
                          a \in SetidSources \cup {Absent},
                          b \in SetidTargets \cup {Absent}}

InitSetid ==
    /\ fs \in SetidFS
    /\ env \in EngineEnvs
    /\ call = NoCall

\* one call of setid, of the copy a.copy
ApplySetid(f, e, a) ==
    IF a.copy = "A"
    THEN SetidA(f, e, a.self, a.name, a.uid, a.effective_ids, a.follow_symlinks)
    ELSE SetidB(f, e, a.self, a.name, a.uid)

DoSetidA ==
    /\ call = NoCall
    /\ \E name \in {NoName, SetidOther}, uid \in BOOLEAN, effective_ids \in EffChoices(env) :
          Called([op |-> "setid", copy |-> "A", self |-> SetidSelf, name |-> name,
                  uid |-> uid, effective_ids |-> effective_ids, follow_symlinks |-> FALSE],
                 FALSE,
                 SetidA(fs, env, SetidSelf, name, uid, effective_ids, FALSE))

DoSetidB ==
    /\ call = NoCall
    /\ \E name \in {NoName, SetidOther}, uid \in BOOLEAN :
          Called([op |-> "setid", copy |-> "B", self |-> SetidSelf, name |-> name,
                  uid |-> uid, effective_ids |-> FALSE, follow_symlinks |-> FALSE],
                 FALSE,
                 SetidB(fs, env, SetidSelf, name, uid))

RepeatSetid ==
    /\ call # NoCall
    /\ ~call.repeat
    /\ Called(call.a, TRUE, ApplySetid(fs, env, call.a))

NextSetid == DoSetidA \/ DoSetidB \/ RepeatSetid

SpecSetid == InitSetid /\ [][NextSetid]_vars

(***************************************************************************)
(* Vocabulary of the properties of Path.sudo.                              *)
(***************************************************************************)
IsSudoCall == call.op \in {"sudoA", "sudoB"}

\* the call returned the empty prefix: "" or []
ReturnedEmpty == IF call.to_list THEN call.result = <<>> ELSE call.result = ""

\* the call returned the escalation prefix: which() or [which()]
ReturnedPrefix ==
    /\ Which(env) # ""
    /\ IF call.to_list THEN call.result = <<Which(env)>> ELSE call.result = Which(env)

\* the identity whose access the probes of the call test
ProbeId == IF call.effective_ids THEN env.euid ELSE env.uid

\* force is set: force=True in copy A, passwd=root in copy B
ForceSet == IF call.op = "sudoA" THEN call.force ELSE call.passwd = FromRoot

\* the account copy B compares with root: passwd, by default the login account
TestedPasswd == IF call.passwd = NoPasswd THEN FromLogin(env) ELSE call.passwd

\* the caller as the copy takes it is not root
TakenAsNonRoot ==
    IF call.op = "sudoA" THEN ProbeId # RootUid ELSE TestedPasswd # FromRoot

\* the location of the target and the nearest existing location in the chain
\* target, parent, grandparent, ...
TargetKey == Key(env, call.self)

NearestExisting ==
    LET n == CHOOSE i \in 0..Len(TargetKey) :
                 /\ SubSeq(TargetKey, 1, i) \in DOMAIN fs
                 /\ \A j \in (i + 1)..Len(TargetKey) : SubSeq(TargetKey, 1, j) \notin DOMAIN fs
    IN  SubSeq(TargetKey, 1, n)

NearestGrants == Permits(fs[NearestExisting], ProbeId, call.os_mode)

C2_NearestDeniesPrefix ==
    (IsSudoCall /\ Which(env) # "" /\ env.uid # RootUid /\ env.euid # RootUid
        /\ TakenAsNonRoot /\ call.self.abs /\ ~NearestGrants)
    => ReturnedPrefix

\* C3: with no escalation command installed the prefix is empty, whatever
\* the path, the mode, force/passwd and the probes answer.
C3_NotInstalledEmpty ==
    (IsSudoCall /\ Which(env) = "") => ReturnedEmpty

C3_Witness ==
    /\ IsSudoCall /\ Which(env) = "" /\ ForceSet /\ ~NearestGrants
    /\ ProbeId # RootUid /\ ReturnedEmpty

\* C4: a superuser caller (uid 0; the effective uid with effective_ids) gets
\* the empty prefix, also when the command is installed.
C4_SuperuserEmpty ==
    (IsSudoCall /\ ProbeId = RootUid) => ReturnedEmpty

\* nothing of the chain exists below "/"
NothingBelowRoot == NearestExisting = <<>> /\ TargetKey # <<>>

\* C5 as stated: when nothing of the chain exists below "/", the prefix is
\* returned whatever the root directory grants.
C5_AsStated ==
    (IsSudoCall /\ Which(env) # "" /\ env.uid # RootUid /\ env.euid # RootUid
        /\ NothingBelowRoot)
    => ReturnedPrefix

(***************************************************************************)
(* Vocabulary of the properties of the operations.                         *)
(***************************************************************************)
IsOpCall == call.op \in {"mkdir", "touch", "chmod", "chown", "cp", "rm"}

\* the path an operation works on: self / name for mkdir and touch
OpTarget ==
    IF call.op \in {"mkdir", "touch"} THEN Join(call.a.self, call.a.name) ELSE call.a.self

\* the identity whose access the probes of the operation test
OpProbeId == IF call.a.effective_ids THEN env.euid ELSE env.uid

ExistedBefore == Exists(call.pre, env, OpTarget)

NodeBefore == call.pre[Key(env, OpTarget)]

\* nothing was run and nothing changed
NoCommandNoChange == call.cmds = <<>> /\ fs = call.pre

ForcedProgs == {"chmod", "chown", "rm"}

\* C6: with force set, the command installed and a non-root caller, Path.sudo
\* of copy A returns the escalation prefix for every path, whatever the
\* probes answer; and every chmod, chown and rm command an operation issues
\* for such a caller carries that prefix, they call Path.sudo with force.
C6_ForcePrefix ==
    /\ (call.op = "sudo" /\ call.a.force /\ Which(env) # "" /\ OpProbeId # RootUid)
          => call.ret = (IF call.a.to_list THEN <<Which(env)>> ELSE Which(env))
    /\ (IsOpCall /\ Which(env) # "" /\ OpProbeId # RootUid)
          => \A i \in DOMAIN call.cmds :
                 call.cmds[i].prog \in ForcedProgs => call.cmds[i].prefix = <<Which(env)>>

C6_Witness ==
    /\ call.op = "chmod" /\ Which(env) # "" /\ OpProbeId # RootUid
    /\ env.uid # RootUid /\ env.euid # RootUid
    /\ ExistedBefore /\ Permits(NodeBefore, OpProbeId, {W_OK})
    /\ Len(call.cmds) = 1 /\ call.cmds[1].prefix = <<SudoBin>>

\* C7: mkdir on a path that is a directory, and touch on a path that is a
\* file or a directory, issue no command and change nothing; and the second
\* of two mkdir or touch calls with the same arguments leaves the file
\* system as the first one left it.
C7_NoOpOnExisting ==
    /\ (call.op = "mkdir" /\ IsDir(call.pre, env, OpTarget))
          => NoCommandNoChange /\ call.exc = "none"
    /\ (call.op = "touch" /\ (IsFile(call.pre, env, OpTarget) \/ IsDir(call.pre, env, OpTarget)))
          => NoCommandNoChange /\ call.exc = "none"
    /\ (call.op \in {"mkdir", "touch"} /\ call.repeat) => fs = call.pre

C7_Witness ==
    /\ call.op = "touch" /\ call.repeat /\ call.a.passwd # NoPasswd
    /\ call.a.mode # NoMode
    /\ IsFile(call.pre, env, OpTarget)
    /\ NodeBefore.mode # call.a.mode.bits
    /\ NoCommandNoChange

\* the mode / the owner of the path before the call is the requested one
ModeAsRequested ==
    call.a.mode.kind = "num" /\ ~call.a.recursive /\ NodeBefore.mode = call.a.mode.bits

OwnerAsRequested ==
    call.a.passwd.kind = "passwd" /\ ~call.a.recursive
        /\ NodeBefore.owner = call.a.passwd.uid

\* C8: chmod and chown issue a command only when the mode or the owner
\* differs from the requested one, and a second call with the same arguments
\* issues none.
C8_IssueOnlyOnDifference ==
    /\ (call.op = "chmod" /\ ExistedBefore /\ ModeAsRequested) => call.cmds = <<>>
    /\ (call.op = "chown" /\ ExistedBefore /\ OwnerAsRequested) => call.cmds = <<>>
    /\ (call.op \in {"chmod", "chown"} /\ call.repeat /\ call.exc = "none")
          => call.cmds = <<>>

\* the chain below the temporary directory, from depth i to depth j
TempChain(i, j) == {TempDir \o Prefix(n) : n \in i..j}

\* the call added the directories from depth i to depth j, and the file (if
\* asked) at depth j, and changed nothing else
Added(i, j, file) ==
    /\ DOMAIN fs = DOMAIN call.pre \cup TempChain(i, j)
    /\ \A q \in DOMAIN call.pre : fs[q] = call.pre[q]
    /\ \A n \in i..j :
          IF file /\ n = j
          THEN fs[TempDir \o Prefix(n)].kind = "file" /\ fs[TempDir \o Prefix(n)].content = <<>>
          ELSE fs[TempDir \o Prefix(n)].kind = "dir"

\* C9: in an empty directory t, t('1/../k') makes the k nested directories
\* and returns t/1/../k; t('1/../m', file) then makes the missing directories
\* and an empty file at depth m; t('1/../m/../n', file) then fails with
\* NotADirectoryError, issues no command and changes nothing (k < m < n; the
\* example of the documentation is k = 4, m = 7, n = 9).
C9_Scenario ==
    call # NoCall =>
       /\ call.step = 1 =>
             /\ call.exc = "none"
             /\ call.ret = AbsPath(TempDir \o Prefix(call.dirs))
             /\ Added(1, call.dirs, FALSE)
       /\ call.step = 2 =>
             /\ call.exc = "none"
             /\ call.ret = AbsPath(TempDir \o Prefix(call.file))
             /\ Added(call.dirs + 1, call.file, TRUE)
       /\ call.step = 3 =>
             /\ call.exc = "NotADirectoryError"
             /\ NoCommandNoChange

C9_Witness ==
    /\ call # NoCall /\ call.step = 3
    /\ call.dirs = 4 /\ call.file = 7 /\ Len(call.a.name) = 9
    /\ call.a.name[7] = "7.py" /\ call.a.name[9] = "9.py"
    /\ IsFile(fs, env, AbsPath(TempDir \o Prefix(7)))
    /\ IsDir(fs, env, AbsPath(TempDir \o Prefix(6)))
    /\ call.exc = "NotADirectoryError" /\ NoCommandNoChange

\* C10: cp of a missing source, chmod or chown (exception left true) of a
\* missing path, and chown with a string identity without ":" raise
\* FileNotFoundError / ValueError before any command is issued, and the file
\* system is left unchanged.
C10_ErrorsBeforeCommands ==
    /\ (call.op = "cp" /\ ~ExistedBefore)
          => call.exc = "FileNotFoundError" /\ NoCommandNoChange
    /\ (call.op \in {"chmod", "chown"} /\ call.a.exception /\ ~ExistedBefore)
          => call.exc = "FileNotFoundError" /\ NoCommandNoChange
    /\ (call.op = "chown" /\ call.a.passwd.kind = "str" /\ ~call.a.passwd.colon)
          => call.exc \in {"FileNotFoundError", "ValueError"} /\ NoCommandNoChange
    /\ (call.op = "chown" /\ call.a.passwd.kind = "str" /\ ~call.a.passwd.colon
           /\ (ExistedBefore \/ ~call.a.exception))
          => call.exc = "ValueError"

C10_Witness ==
    /\ call.op = "chown" /\ call.a.passwd.kind = "str" /\ ~call.a.passwd.colon
    /\ ExistedBefore /\ call.a.recursive /\ IsDir(call.pre, env, OpTarget)
    /\ call.exc = "ValueError" /\ NoCommandNoChange

\* C11: whenever a command an operation issued exits non-zero, the operation
\* fails with the error that carries the exit code (CalledProcessError); no
\* operation returns normally after its command failed.
C11_FailedCommandRaises ==
    (IsOpCall /\ \E i \in DOMAIN call.cmds : call.cmds[i].rc # 0)
        => call.exc = "CalledProcessError"

\* C12: every call of an operation issues at most one external command.
C12_AtMostOneCommand == IsOpCall => Len(call.cmds) <= 1

\* the directory holds an entry of that name (a file, a directory or a
\* symbolic link, dangling or not)
EntryPresent == Key(env, call.self) \in DOMAIN fs

\* the entry is a symbolic link and stat() through it finds nothing
DanglingLink == IsSymlink(fs, env, call.self) /\ ~SuperExists(fs, env, call.self)

\* C13: Path.access answers None for every path that does not exist (no
\* entry of that name), never False, and answers True or False only for a
\* path that exists.
C13_NotFoundIffMissing ==
    call.op = "access" =>
       /\ ~EntryPresent => call.result = "NotFound"
       /\ call.result \in {"Allowed", "Denied"} => EntryPresent

C13_Witness ==
    /\ call.op = "access" /\ ~EntryPresent /\ call.result = "NotFound"
    /\ call.self = AbsPath(<<"a">>) /\ call.follow_symlinks
    /\ <<"b">> \in DOMAIN fs /\ fs[<<"b">>].kind = "link" /\ fs[<<"b">>].target = <<"a">>

\* C14: for a dangling symbolic link Path.access answers True or False
\* without follow_symlinks, and None with follow_symlinks.
C14_DanglingLink ==
    (call.op = "access" /\ DanglingLink) =>
       IF call.follow_symlinks THEN call.result = "NotFound"
       ELSE call.result \in {"Allowed", "Denied"}


(***************************************************************************)
(* The removal specification: on a tree of directories and files below     *)
(* /1/2/..., rm of copy A or of copy B is called once, on a path and       *)
(* with or without a part to add to it.                                    *)
(***************************************************************************)
DoRmB ==
    /\ call = NoCall
    /\ \E t \in Targets, name \in {<<>>} \cup {<<n>> : n \in Names}, missing_ok \in BOOLEAN :
          Called([op |-> "rmB", self |-> AbsPath(t), name |-> name,
                  effective_ids |-> FALSE, follow_symlinks |-> FALSE,
                  missing_ok |-> missing_ok],
                 FALSE,
                 RmB(fs, env, AbsPath(t), name, missing_ok))

NextRm == DoRm \/ DoRmB

SpecRm == InitEngine /\ [][NextRm]_vars

(***************************************************************************)
(* The two-copies specification: on a tree of directories and files below  *)
(* /1/2/..., cp or mkdir of copy A or of copy B is called once.            *)
(***************************************************************************)
DoCpB ==
    /\ call = NoCall
    /\ \E t \in Targets, dest \in Targets :
          Called([op |-> "cpB", self |-> AbsPath(t), dest |-> AbsPath(dest),
                  contents |-> FALSE],
                 FALSE,
                 CpB(fs, env, AbsPath(t), AbsPath(dest)))

DoMkdirB ==
    /\ call = NoCall
    /\ \E t \in Targets, passwd \in PasswdArgs, mode \in {NoMode, NumMode(M700)},
          effective_ids \in EffChoices(env) :
          Called([op |-> "mkdirB", self |-> AbsPath(Front(t)), name |-> <<Last(t)>>,
                  passwd |-> passwd, mode |-> mode, effective_ids |-> effective_ids],
                 FALSE,
                 MkdirB(fs, env, AbsPath(Front(t)), <<Last(t)>>, passwd, mode,
                        effective_ids))

NextCopies == DoCp \/ DoCpB \/ DoMkdir \/ DoMkdirB

SpecCopies == InitEngine /\ [][NextCopies]_vars

(***************************************************************************)
(* The Passwd cache, copy A.  Here fs is not in play, env is the process   *)
(* (its uid, login name, SUDO_UID, the module's _cache_passwd and the      *)
(* number of Passwd objects built so far) and call is the last lookup.     *)
(***************************************************************************)

\* the account database behind pwd.getpwnam and pwd.getpwuid
Accounts == {[uid |-> RootUid, user |-> "root"], [uid |-> UserUid, user |-> "user"]}

Getpwnam(name) == CHOOSE a \in Accounts : a.user = name
Getpwuid(uid) == CHOOSE a \in Accounts : a.uid = uid

\* str(uid), as sudo puts it in SUDO_UID, and int(text)
UidStr(uid) == IF uid = RootUid THEN "0" ELSE "1"
UidInt(text) == CHOOSE uid \in Uids : UidStr(uid) = text

\* Python values used as dictionary keys, each with its type and its text:
\* 1 and "1" are different keys
PyInt(n) == [type |-> "int", v |-> UidStr(n)]
PyStr(t) == [type |-> "str", v |-> t]
NoData == [type |-> "None", v |-> ""]

\* str.isnumeric()
IsNumeric(text) == \E uid \in Uids : UidStr(uid) = text

\* Passwd.__post_init__: the account data names
PostInitAccount(e, data) ==
    IF data.type = "str" /\ ~IsNumeric(data.v) THEN Getpwnam(data.v)
    ELSE Getpwuid(IF data.v = "" THEN e.uid ELSE UidInt(data.v))

\* the object Passwd(data) builds: the fields of the account, and which
\* object it is
NewPasswd(e, data) ==
    [uid |-> PostInitAccount(e, data).uid, user |-> PostInitAccount(e, data).user,
     obj |-> e.objects + 1]

\* "if self.uid not in _cache_passwd:
\*      _cache_passwd[self.uid] = _cache_passwd[self.user] = self"
PostInitStore(cache, self) ==
    IF PyInt(self.uid) \notin DOMAIN cache
    THEN (PyInt(self.uid) :> self) @@ (PyStr(self.user) :> self) @@ cache
    ELSE cache

\* cls(data): what the process is after it, and the object returned
Construct(e, data) ==
    [env |-> [e EXCEPT !.objects = @ + 1,
                       !._cache_passwd = PostInitStore(@, NewPasswd(e, data))],
     ret |-> NewPasswd(e, data)]

\* "if key not in _cache_passwd: return cls(key); return _cache_passwd[key]"
Lookup(e, key) ==
    IF key \notin DOMAIN e._cache_passwd THEN Construct(e, key)
    ELSE [env |-> e, ret |-> e._cache_passwd[key]]

\* Passwd.from_login: the key is the login name
PasswdFromLogin(e) == Lookup(e, PyStr(e.login))

\* Passwd.from_sudo: the key is os.environ.get("SUDO_UID", os.getuid()), a
\* string when it comes from the environment
PasswdFromSudo(e) == Lookup(e, IF e.sudo_uid # "" THEN PyStr(e.sudo_uid) ELSE PyInt(e.uid))

\* Passwd.from_root
PasswdFromRoot(e) == Lookup(e, PyInt(RootUid))

\* a login as user, a login as root, a sudo session of user
PasswdEnvs ==
    {[uid |-> i[1], login |-> i[2], sudo_uid |-> i[3], _cache_passwd |-> <<>>, objects |-> 0] :
        i \in {<<UserUid, "user", "">>, <<RootUid, "root", "">>,
               <<RootUid, "user", UidStr(UserUid)>>}}

InitPasswd ==
    /\ fs = <<>>
    /\ env \in PasswdEnvs
    /\ call = NoCall

\* the lookup op about the account of uid answered r
Looked(op, uid, r) ==
    /\ env.objects < MaxObjects
    /\ env' = r.env
    /\ call' = [op |-> op, uid |-> uid, ret |-> r.ret, pre |-> env._cache_passwd]
    /\ UNCHANGED fs

DoPasswd ==
    \E data \in {NoData} \cup {PyInt(a.uid) : a \in Accounts}
                         \cup {PyStr(a.user) : a \in Accounts} :
        Looked("Passwd", PostInitAccount(env, data).uid, Construct(env, data))

DoFromLogin == Looked("from_login", Getpwnam(env.login).uid, PasswdFromLogin(env))

DoFromSudo ==
    Looked("from_sudo", IF env.sudo_uid # "" THEN UidInt(env.sudo_uid) ELSE env.uid,
           PasswdFromSudo(env))

DoFromRoot == Looked("from_root", RootUid, PasswdFromRoot(env))

NextPasswd == DoPasswd \/ DoFromLogin \/ DoFromSudo \/ DoFromRoot

SpecPasswd == InitPasswd /\ [][NextPasswd]_vars

(***************************************************************************)
(* The race specification: NumThreads threads each build one Passwd; the   *)
(* end of __post_init__ is three steps of a thread, the test                *)
(* "self.uid not in _cache_passwd", the store under self.uid and the store *)
(* under self.user, and the steps of the threads interleave.  Here call    *)
(* maps each thread to where it is and the object it is building.          *)
(***************************************************************************)
Threads == 1..NumThreads

\* "_cache_passwd[self.user] = self" left out
StoredUser_Skipped(cache, self) == cache

\* "_cache_passwd[self.uid] = self"
StoredUid(cache, self) == (PyInt(self.uid) :> self) @@ cache

\* "_cache_passwd[self.user] = self"
StoredUser(cache, self) == (PyStr(self.user) :> self) @@ cache

InitRace ==
    /\ fs = <<>>
    /\ env \in PasswdEnvs
    /\ call = [t \in Threads |-> [pc |-> "start"]]

\* the thread t is now at pc
At(t, pc) == call' = [call EXCEPT ![t].pc = pc]

\* Passwd(data) up to the test: the fields are read from the account database
Build(t) ==
    /\ call[t].pc = "start"
    /\ \E data \in {NoData} \cup {PyInt(a.uid) : a \in Accounts}
                            \cup {PyStr(a.user) : a \in Accounts} :
          call' = [call EXCEPT ![t] = [pc |-> "test", self |-> NewPasswd(env, data)]]
    /\ env' = [env EXCEPT !.objects = @ + 1]
    /\ UNCHANGED fs

\* "if self.uid not in _cache_passwd:"
Test(t) ==
    /\ call[t].pc = "test"
    /\ At(t, IF PyInt(call[t].self.uid) \notin DOMAIN env._cache_passwd
             THEN "store_uid" ELSE "done")
    /\ UNCHANGED <<fs, env>>

StoreUid(t) ==
    /\ call[t].pc = "store_uid"
    /\ env' = [env EXCEPT !._cache_passwd = StoredUid(@, call[t].self)]
    /\ At(t, "store_user")
    /\ UNCHANGED fs

StoreUser(t) ==
    /\ call[t].pc = "store_user"
    /\ env' = [env EXCEPT !._cache_passwd = StoredUser(@, call[t].self)]
    /\ At(t, "done")
    /\ UNCHANGED fs

NextRace == \E t \in Threads : Build(t) \/ Test(t) \/ StoreUid(t) \/ StoreUser(t)

SpecRace == InitRace /\ [][NextRace]_vars

(***************************************************************************)
(* The concurrent-callers specification.  mkdir and touch of copy A are    *)
(* taken apart into their steps: every test of the file system (is_dir,    *)
(* is_file, exists, file_in_parents, the probes of Path.sudo) and every    *)
(* external command is one step of a caller.  Two callers of one process   *)
(* run mkdir or touch on different paths below /d and their steps          *)
(* interleave.  Here call maps each caller to its arguments, where it is   *)
(* (pc), the path the current mkdir/chown works on (cur), the prefix it    *)
(* computed last, the exception raised and whether a command failed.       *)
(***************************************************************************)
\* the caller c moves to pc, the file system being f
Goto(f, c, pc) == [fs |-> f, c |-> [c EXCEPT !.pc = pc]]

\* the caller c raises exc
Raise(f, c, exc) == [fs |-> f, c |-> [c EXCEPT !.pc = "done", !.exc = exc]]

\* the caller c computed the prefix sudo for the command it runs at pc
WithPrefix(f, c, sudo, pc) == [fs |-> f, c |-> [c EXCEPT !.pc = pc, !.prefix = sudo]]

\* the caller c ran a command that left x; check=True raises on failure
RanStep(c, x, check, pc) ==
    [fs |-> x.fs,
     c |-> [c EXCEPT !.pc = IF check /\ x.rc # 0 THEN "done" ELSE pc,
                     !.exc = IF check /\ x.rc # 0 THEN "CalledProcessError" ELSE @,
                     !.failed = @ \/ x.rc # 0]]

\* where a caller goes on after the mkdir on c.cur
AfterMkdir(c) ==
    IF c.op = "touch" THEN "touch_sudo" ELSE "done"

\* One step of Path.mkdir on c.cur (the target of mkdir, or the parent that
\* touch makes).
MkdirStep(f, e, c) ==
    CASE c.pc = "mkdir_is_dir" ->
            Goto(f, c, IF IsDir(f, e, c.cur) THEN AfterMkdir(c) ELSE "mkdir_file_in_parents")
      [] c.pc = "mkdir_file_in_parents" ->
            IF FileInParents(f, e, c.cur, FALSE).found
            THEN Raise(f, c, "NotADirectoryError")
            ELSE Goto(f, c, "mkdir_sudo")
      [] c.pc = "mkdir_sudo" ->
            WithPrefix(f, c, SudoA(f, e, c.cur, FALSE, TRUE, {W_OK}, FALSE, FALSE), "mkdir_run")
      [] c.pc = "mkdir_run" ->
            RanStep(c,
                    Subprocess(f, e, Cmd(c.prefix, "mkdir",
                                         {"-p"} \cup (IF c.mode # NoMode THEN {"-m"} ELSE {}),
                                         c.mode, NoPasswd, <<>>, Key(e, c.cur))),
                    FALSE,
                    IF c.op = "mkdir" /\ c.passwd # NoPasswd THEN "chown_exists"
                    ELSE AfterMkdir(c))

\* One step of Path.touch after the parent is there.
TouchStep(f, e, c) ==
    CASE c.pc = "touch_is_file" ->
            Goto(f, c, IF IsFile(f, e, c.path) \/ IsDir(f, e, c.path) THEN "done"
                       ELSE "touch_file_in_parents")
      [] c.pc = "touch_file_in_parents" ->
            IF FileInParents(f, e, Parent(c.path), FALSE).found
            THEN Raise(f, c, "NotADirectoryError")
            ELSE Goto(f, c, "touch_parent_exists")
      [] c.pc = "touch_parent_exists" ->
            Goto(f, c, IF Exists(f, e, Parent(c.path)) THEN "touch_sudo" ELSE "mkdir_is_dir")
      [] c.pc = "touch_sudo" ->
            WithPrefix(f, c, SudoA(f, e, c.path, FALSE, TRUE, {W_OK}, FALSE, FALSE), "touch_run")
      [] c.pc = "touch_run" ->
            RanStep(c,
                    Subprocess(f, e, Cmd(c.prefix, "touch", {}, NoMode, NoPasswd, <<>>,
                                         Key(e, c.path))),
                    TRUE, "chmod_exists")

\* One step of Path.chmod or Path.chown on c.path.
ChangeStep(f, e, c) ==
    CASE c.pc = "chmod_exists" ->
            IF Exists(f, e, c.path) THEN Goto(f, c, "chmod_sudo")
            ELSE Raise(f, c, "FileNotFoundError")
      [] c.pc = "chmod_sudo" ->
            WithPrefix(f, c, SudoA(f, e, c.path, TRUE, TRUE, {W_OK}, FALSE, FALSE), "chmod_run")
      [] c.pc = "chmod_run" ->
            RanStep(c,
                    Subprocess(f, e, Cmd(c.prefix, "chmod", {},
                                         IF c.mode # NoMode THEN c.mode
                                         ELSE IF IsDir(f, e, c.path) THEN NumMode(M755)
                                         ELSE NumMode(M644),
                                         NoPasswd, <<>>, Key(e, c.path))),
                    FALSE,
                    IF c.passwd # NoPasswd THEN "chown_exists" ELSE "done")
      [] c.pc = "chown_exists" ->
            IF Exists(f, e, c.path) THEN Goto(f, c, "chown_sudo")
            ELSE Raise(f, c, "FileNotFoundError")
      [] c.pc = "chown_sudo" ->
            WithPrefix(f, c, SudoA(f, e, c.path, TRUE, TRUE, {W_OK}, FALSE, FALSE), "chown_run")
      [] c.pc = "chown_run" ->
            RanStep(c,
                    Subprocess(f, e, Cmd(c.prefix, "chown", {}, NoMode, c.passwd, <<>>,
                                         Key(e, c.path))),
                    TRUE, "done")

MkdirPcs == {"mkdir_is_dir", "mkdir_file_in_parents", "mkdir_sudo", "mkdir_run"}
TouchPcs == {"touch_is_file", "touch_file_in_parents", "touch_parent_exists",
             "touch_sudo", "touch_run"}

\* The next step of the caller c on the file system f.
StepOf(f, e, c) ==
    IF c.pc \in MkdirPcs THEN MkdirStep(f, e, c)
    ELSE IF c.pc \in TouchPcs THEN TouchStep(f, e, c)
    ELSE ChangeStep(f, e, c)

\* a caller about to run op(path, passwd, mode); touch makes the parent
Caller(op, path, passwd, mode) ==
    [op |-> op, path |-> path, passwd |-> passwd, mode |-> mode,
     cur |-> IF op = "touch" THEN Parent(path) ELSE path,
     pc |-> IF op = "touch" THEN "touch_is_file" ELSE "mkdir_is_dir",
     prefix |-> <<>>, exc |-> "none", failed |-> FALSE]

Callers == {1, 2}

\* the directory the two callers work below, and their targets
SharedDir == <<"d">>
TargetsOf(t) == IF t = 1 THEN {AbsPath(SharedDir \o <<"a">>)}
                ELSE {AbsPath(SharedDir \o <<"b">>), AbsPath(<<"b">>)}

CallersOf(t) ==
    {Caller(op, path, passwd, mode) :
        op \in {"mkdir", "touch"}, path \in TargetsOf(t),
        passwd \in {NoPasswd, PasswdOf(RootUid)}, mode \in {NoMode, NumMode(M700)}}

\* "/" of root, closed or open to everybody, with or without /d
ConcurrentFS ==
    {[q \in {<<>>} |-> r] : r \in {Node("dir", RootUid, M755), Node("dir", RootUid, M777)}}
        \cup {[q \in {<<>>, SharedDir} |-> IF q = <<>> THEN r ELSE d] :
                 r \in {Node("dir", RootUid, M755), Node("dir", RootUid, M777)},
                 d \in {Node("dir", UserUid, M755), Node("dir", RootUid, M755)}}

ConcurrentEnvs ==
    {Env(w[1], id, <<>>, w[2]) :
        w \in {<<"", FALSE>>, <<SudoBin, TRUE>>},
        id \in {<<UserUid, UserUid, UserUid>>, <<RootUid, RootUid, RootUid>>}}

\* each caller's record also keeps how it started and the file system the
\* two started on
InitConcurrent ==
    /\ fs \in ConcurrentFS
    /\ env \in ConcurrentEnvs
    /\ \E c1 \in CallersOf(1), c2 \in CallersOf(2) :
          call = [t \in Callers |-> [c |-> IF t = 1 THEN c1 ELSE c2,
                                     start |-> IF t = 1 THEN c1 ELSE c2,
                                     pre |-> fs]]

\* the caller t takes its next step
Advance(t) ==
    /\ call[t].c.pc # "done"
    /\ fs' = StepOf(fs, env, call[t].c).fs
    /\ call' = [call EXCEPT ![t].c = StepOf(fs, env, call[t].c).c]
    /\ UNCHANGED env

NextConcurrent == \E t \in Callers : Advance(t)

SpecConcurrent == InitConcurrent /\ [][NextConcurrent]_vars

(***************************************************************************)
(* The context specification: Path.cd() and Path.tempcd() of copy A.  A    *)
(* context is entered, its body changes directory or removes directories   *)
(* (at most MaxBody times), and the body returns or raises.  env.cwd is    *)
(* the working directory; call is the context: the directory on entry,    *)
(* where it is, the exception that leaves it and what the exit did.        *)
(***************************************************************************)
\* Path.to_parent
ToParent(f, e, self) == IF IsFile(f, e, self) THEN Parent(self) ELSE self

\* os.chdir(k): what it raises, "none" when the process is in k afterwards
OsChdir(f, e, k) ==
    IF k \notin DOMAIN f THEN "FileNotFoundError"
    ELSE IF f[k].kind # "dir" THEN "NotADirectoryError"
    ELSE IF \E i \in 0..Len(k) : ~Permits(f[SubSeq(k, 1, i)], e.euid, {X_OK})
    THEN "PermissionError"
    ELSE "none"

\* Path.chdir: the working directory after it, and what it raised
Chdir(f, e, self) ==
    [cwd |-> IF OsChdir(f, e, Key(e, ToParent(f, e, self))) = "none"
             THEN Key(e, ToParent(f, e, self)) ELSE e.cwd,
     exc |-> OsChdir(f, e, Key(e, ToParent(f, e, self)))]

\* the "finally: pass" of cd: the directory on entry is not gone back to
CdFinally_Pass(f, e, c, raised) ==
    [cwd |-> e.cwd, exc |-> IF raised THEN "BodyError" ELSE "none",
     events |-> <<"not restored">>]

\* the "finally: oldpwd.chdir()" of cd, the body having raised or not: an
\* exception of the chdir replaces the one of the body
CdFinally(f, e, c, raised) ==
    [cwd |-> Chdir(f, e, c.oldpwd).cwd,
     exc |-> IF Chdir(f, e, c.oldpwd).exc # "none" THEN Chdir(f, e, c.oldpwd).exc
             ELSE IF raised THEN "BodyError" ELSE "none",
     events |-> IF Chdir(f, e, c.oldpwd).exc = "none" THEN <<"restored">>
                ELSE <<"not restored">>]

\* the exit of tempfile.TemporaryDirectory: the directory and all in it go
Cleanup(f, k) == [q \in DOMAIN f \ Subtree(f, k) |-> f[q]]

CdFS ==
    {[q \in {<<>>, <<"1">>} \cup two \cup file |->
         IF q = <<>> THEN r
         ELSE IF q = <<"1">> THEN one
         ELSE IF q = <<"2">> THEN Node("dir", UserUid, M755)
         ELSE Node("file", UserUid, M644)] :
        r \in {Node("dir", RootUid, M755), Node("dir", RootUid, M777)},
        one \in {Node("dir", UserUid, M755), Node("dir", RootUid, M700)},
        two \in {{}, {<<"2">>}},
        file \in {{}, {<<"1", "f">>}}}

CdDirs == {<<>>, <<"1">>, <<"2">>, TempDir}

\* the process is in a directory it could enter
InitCd ==
    /\ fs \in CdFS
    /\ \E id \in {<<UserUid, UserUid, UserUid>>, <<RootUid, RootUid, RootUid>>},
          cwd \in CdDirs :
          /\ env = Env("", id, cwd, FALSE)
          /\ OsChdir(fs, env, cwd) = "none"
    /\ call = NoCall

\* the context op on self, entered by a chdir that raised exc or did not
Entered(op, self, exc) ==
    [op |-> op, self |-> self, oldpwd |-> AbsPath(env.cwd),
     pc |-> IF exc = "none" THEN "body" ELSE "left",
     entered |-> exc = "none", exc |-> exc, events |-> <<>>, steps |-> 0]

\* with self.cd(): "oldpwd = self.cwd()", "self.chdir()"; when chdir raises,
\* the finally clause runs in the directory that was never left
EnterCd ==
    /\ call = NoCall
    /\ \E self \in {AbsPath(<<"1">>), AbsPath(<<"2">>), AbsPath(<<"1", "f">>),
                    AbsPath(<<"3">>), RelPath(<<"1">>)} :
          /\ call' = Entered("cd", self, Chdir(fs, env, self).exc)
          /\ env' = [env EXCEPT !.cwd = Chdir(fs, env, self).cwd]
    /\ UNCHANGED fs

\* with Path.tempcd(directory='/'): mkdtemp, then tmpdir.cd()
EnterTempcd ==
    /\ call = NoCall
    /\ IF Permits(fs[<<>>], env.euid, {W_OK, X_OK})
       THEN /\ fs' = (TempDir :> Node("dir", env.euid, M700)) @@ fs
            /\ call' = Entered("tempcd", AbsPath(TempDir), "none")
            /\ env' = [env EXCEPT !.cwd = TempDir]
       ELSE /\ call' = Entered("tempcd", AbsPath(TempDir), "PermissionError")
            /\ UNCHANGED <<fs, env>>

\* the body changes directory
BodyChdir ==
    /\ call # NoCall /\ call.pc = "body" /\ call.steps < MaxBody
    /\ \E k \in CdDirs :
          /\ OsChdir(fs, env, k) = "none"
          /\ env' = [env EXCEPT !.cwd = k]
    /\ call' = [call EXCEPT !.steps = @ + 1]
    /\ UNCHANGED fs

\* the body removes a directory and what is in it
BodyRemove ==
    /\ call # NoCall /\ call.pc = "body" /\ call.steps < MaxBody
    /\ \E k \in CdDirs \ {<<>>} :
          /\ k \in DOMAIN fs
          /\ RunRm(fs, env.euid, Cmd(<<>>, "rm", {"-rf"}, NoMode, NoPasswd, <<>>, k)).rc = 0
          /\ fs' = RunRm(fs, env.euid, Cmd(<<>>, "rm", {"-rf"}, NoMode, NoPasswd, <<>>, k)).fs
    /\ call' = [call EXCEPT !.steps = @ + 1]
    /\ UNCHANGED env

\* the body returns or raises: the finally clause of cd and, for tempcd,
\* the exit of the temporary directory after it
Leave ==
    /\ call # NoCall /\ call.pc = "body"
    /\ \E raised \in BOOLEAN :
          /\ env' = [env EXCEPT !.cwd = CdFinally(fs, env, call, raised).cwd]
          /\ call' = [call EXCEPT
                        !.pc = "left",
                        !.exc = CdFinally(fs, env, call, raised).exc,
                        !.events = CdFinally(fs, env, call, raised).events
                                     \o (IF call.op = "tempcd" THEN <<"removed">> ELSE <<>>)]
    /\ fs' = IF call.op = "tempcd" THEN Cleanup(fs, TempDir) ELSE fs

NextCd == EnterCd \/ EnterTempcd \/ BodyChdir \/ BodyRemove \/ Leave

SpecCd == InitCd /\ [][NextCd]_vars

(***************************************************************************)
(* The link specification: Path.ln of copy A.  A symbolic link keeps the   *)
(* text it was made with (what readlink answers) next to the location the  *)
(* kernel reaches through it: a relative text counts from the directory    *)
(* the link is in.  Only last components are links here.                   *)
(***************************************************************************)
\* the symbolic link at k made with the text of path p
TextLink(owner, k, p) ==
    [kind |-> "link", owner |-> owner, mode |-> M777, content |-> <<>>,
     target |-> IF p.abs THEN p.parts ELSE Front(k) \o p.parts, text |-> p]

RECURSIVE ResolveKey(_, _, _)
\* os.path.realpath of k, not strict: links followed, a missing end kept
ResolveKey(f, k, n) ==
    IF k \notin DOMAIN f \/ f[k].kind # "link" THEN k
    ELSE IF n = 0 THEN NoKey
    ELSE ResolveKey(f, f[k].target, n - 1)

\* Path.resolve: a relative path counts from the working directory
Resolve(f, e, p) == ResolveKey(f, Key(e, p), MaxLinks)

\* Path.readlink: the text of the link as a path
Readlink(f, e, p) == f[Key(e, p)].text

\* os.symlink(self, dest): what it raises, "none" when the link was made
SymlinkExc(f, e, dest) ==
    IF Key(e, dest) \in DOMAIN f THEN "FileExistsError"
    ELSE IF Key(e, dest) = <<>> \/ ~IsDir(f, e, Parent(dest)) THEN "FileNotFoundError"
    ELSE IF ~Permits(f[Deref(f, Key(e, Parent(dest)), MaxLinks)], e.euid, {W_OK, X_OK})
    THEN "PermissionError"
    ELSE "none"

\* "self._accessor.symlink(self, dest)" after the call that returned y
Symlink(e, self, dest, y) ==
    Result(IF SymlinkExc(y.fs, e, dest) = "none"
           THEN (Key(e, dest) :> TextLink(e.euid, Key(e, dest), self)) @@ y.fs
           ELSE y.fs,
           y.cmds, SymlinkExc(y.fs, e, dest), dest)

\* the test "dest.is_symlink() and dest.readlink().resolve() == self.resolve()"
\* made on the link itself: where the kernel gets through it
SameSource_Resolved(f, e, self, dest) ==
    IsSymlink(f, e, dest) /\ Resolve(f, e, dest) = Resolve(f, e, self)

\* the test "dest.is_symlink() and dest.readlink().resolve() == self.resolve()"
SameSource(f, e, self, dest) ==
    IsSymlink(f, e, dest) /\ Resolve(f, e, Readlink(f, e, dest)) = Resolve(f, e, self)

LnA(f, e, self, dest, force) ==
    IF SameSource(f, e, self, dest) THEN Result(f, <<>>, "none", dest)
    ELSE Symlink(e, self, dest,
                 IF force /\ Exists(f, e, dest)
                 THEN RmA(f, e, dest, <<>>, FALSE, FALSE, TRUE)
                 ELSE Result(f, <<>>, "none", dest))

LnSources == {AbsPath(<<"s">>), AbsPath(<<"d", "s">>), RelPath(<<"s">>)}

LnDests == {AbsPath(<<"l">>), AbsPath(<<"d", "l">>), RelPath(<<"l">>)}

\* what may be at a destination k: nothing, a file, a directory, a link
LnEntries(k) ==
    {Node("file", UserUid, M644), Node("dir", UserUid, M755)}
        \cup {TextLink(UserUid, k, p) : p \in LnSources}

LnFS ==
    {[q \in {<<>>, <<"d">>} \cup files \cup DOMAIN links |->
         IF q = <<>> THEN slash
         ELSE IF q = <<"d">> THEN Node("dir", UserUid, M755)
         ELSE IF q \in files THEN Node("file", UserUid, M644)
         ELSE links[q]] :
        slash \in {Node("dir", RootUid, M755), Node("dir", RootUid, M777)},
        files \in SUBSET {<<"s">>, <<"d", "s">>},
        links \in UNION {{l \in [D -> UNION {LnEntries(k) : k \in D}] :
                             \A k \in D : l[k] \in LnEntries(k)} :
                         D \in SUBSET {<<"l">>, <<"d", "l">>}}}

InitLn ==
    /\ fs \in LnFS
    /\ \E id \in {<<UserUid, UserUid, UserUid>>, <<RootUid, RootUid, RootUid>>},
          cwd \in {<<>>, <<"d">>}, sudo_ok \in BOOLEAN :
          env = Env(SudoBin, id, cwd, sudo_ok)
    /\ call = NoCall

\* self.ln(dest, force)
DoLn ==
    /\ call = NoCall
    /\ \E self \in LnSources, dest \in LnDests, force \in BOOLEAN :
          Called([op |-> "ln", self |-> self, dest |-> dest, force |-> force], FALSE,
                 LnA(fs, env, self, dest, force))

\* the same call once more, after it returned
RepeatLn ==
    /\ call # NoCall /\ call.op = "ln" /\ ~call.repeat /\ call.exc = "none"
    /\ Called(call.a, TRUE, LnA(fs, env, call.a.self, call.a.dest, call.a.force))

NextLn == DoLn \/ RepeatLn

SpecLn == InitLn /\ [][NextLn]_vars

(***************************************************************************)
(* The command specification: which() of both copies (the same text).  fs  *)
(* is the set of executables installed, env the process with its            *)
(* _cache_which; a command is a directory ("" for a bare name) and a name. *)
(***************************************************************************)
Command(dir, name) == [dir |-> dir, name |-> name]

\* the '' of "... or ''"
NoCommand == Command("", "")

\* the directories of PATH, in order
PathDirs == <<"/usr/bin", "/bin">>

Executables ==
    {Command("/usr/bin", "sudo"), Command("/opt/x", "sudo"), Command("/bin", "sudo"),
     Command("/bin", "ls")}

\* the arguments of which
WhichArgs == Executables \cup {Command("", "sudo"), Command("", "ls")}

\* shutil.which(cmd, mode=os.X_OK) or `command -v cmd`: a command with a
\* directory is itself when installed; a bare name is looked for along PATH
ShutilWhich(installed, cmd) ==
    IF cmd.dir # ""
    THEN IF cmd \in installed THEN cmd ELSE NoCommand
    ELSE IF \E i \in DOMAIN PathDirs : Command(PathDirs[i], cmd.name) \in installed
    THEN Command(PathDirs[CHOOSE i \in DOMAIN PathDirs :
                     /\ Command(PathDirs[i], cmd.name) \in installed
                     /\ \A j \in 1..(i - 1) : Command(PathDirs[j], cmd.name) \notin installed],
                 cmd.name)
    ELSE NoCommand

\* "key = Path(cmd).name"
WhichKey(cmd) == cmd.name

\* which(cmd): the cache it leaves and the value it returns
WhichCmd(cache, installed, cmd) ==
    [cache |-> IF WhichKey(cmd) \in DOMAIN cache THEN cache
               ELSE (WhichKey(cmd) :> ShutilWhich(installed, cmd)) @@ cache,
     ret |-> IF WhichKey(cmd) \in DOMAIN cache THEN cache[WhichKey(cmd)]
             ELSE ShutilWhich(installed, cmd)]

\* a process that has not called which yet
InitWhich ==
    /\ fs \in SUBSET Executables
    /\ env = [_cache_which |-> <<>>]
    /\ call = NoCall

DoWhich ==
    /\ \E cmd \in WhichArgs :
          /\ env' = [env EXCEPT !._cache_which = WhichCmd(env._cache_which, fs, cmd).cache]
          /\ call' = [op |-> "which", cmd |-> cmd,
                      ret |-> WhichCmd(env._cache_which, fs, cmd).ret,
                      cached |-> WhichKey(cmd) \in DOMAIN env._cache_which]
    /\ UNCHANGED fs

NextWhich == DoWhich

SpecWhich == InitWhich /\ [][NextWhich]_vars

(***************************************************************************)
(* The comparison specification: two regular files /a and /b with any      *)
(* content of at most MaxBytes bytes, any owner, mode and modification     *)
(* time; cmp is called once on two of them.                                *)
(***************************************************************************)
Bytes == {0, 1}

Contents == UNION {[1..n -> Bytes] : n \in 0..MaxBytes}

\* a regular file with a modification time
CmpNodes ==
    {[kind |-> "file", owner |-> m[1], mode |-> m[2], content |-> c, mtime |-> t] :
        m \in {<<UserUid, M644>>, <<RootUid, M644>>, <<RootUid, M700>>},
        c \in Contents, t \in {1, 2}}

CmpPaths == {AbsPath(<<"a">>), AbsPath(<<"b">>)}

InitCmp ==
    /\ \E a \in CmpNodes, b \in CmpNodes :
          fs = [q \in {<<>>, <<"a">>, <<"b">>} |->
                   IF q = <<>> THEN Node("dir", RootUid, M755)
                   ELSE IF q = <<"a">> THEN a ELSE b]
    /\ env \in {Env("", id, <<>>, FALSE) :
                   id \in {<<UserUid, UserUid, UserUid>>, <<RootUid, RootUid, RootUid>>}}
    /\ call = NoCall

CallCmp ==
    /\ call = NoCall
    /\ \E self \in CmpPaths, other \in CmpPaths :
          call' = [op |-> "cmp", self |-> self, other |-> other,
                   exc |-> Cmp(fs, env, self, other).exc,
                   ret |-> Cmp(fs, env, self, other).ret]
    /\ UNCHANGED <<fs, env>>

NextCmp == CallCmp

SpecCmp == InitCmp /\ [][NextCmp]_vars

(***************************************************************************)
(* Claims about Path.setid.                                                *)
(***************************************************************************)
IsSetid(copy) == call.op = "setid" /\ call.a.copy = copy

\* the target of the setid call
SetidTargetKey == Key(env, SetidName(call.a.self, call.a.name))

\* before the call, the target exists with the content of the source, is
\* owned by root and carries the requested set-id bit and the execute bits
AlreadyPromoted ==
    /\ call.a.name # NoName
    /\ Key(env, call.a.self) \in DOMAIN call.pre
    /\ SetidTargetKey \in DOMAIN call.pre
    /\ call.pre[SetidTargetKey].kind = "file"
    /\ call.pre[SetidTargetKey].content = call.pre[Key(env, call.a.self)].content
    /\ call.pre[SetidTargetKey].owner = RootUid
    /\ HasMod(call.pre[SetidTargetKey], call.a.uid)

\* C15: setid of copy A on a target that is already there, identical to the
\* source, owned by root and carrying the requested bits issues no command
\* and leaves the file system, the bits of the target included, as it was.
C15_NoCommandWhenPromoted ==
    (IsSetid("A") /\ AlreadyPromoted) =>
        /\ call.cmds = <<>>
        /\ fs = call.pre
        /\ HasMod(fs[SetidTargetKey], call.a.uid)

C15_Witness ==
    /\ IsSetid("A") /\ AlreadyPromoted
    /\ ~call.repeat
    /\ call.exc = "none"
    /\ env.euid = UserUid

\* after the call, the target carries the requested set-id bit and the
\* execute bits, is owned by root and, when a name was given, has the
\* content of the source
Promoted ==
    /\ SetidTargetKey \in DOMAIN fs
    /\ HasMod(fs[SetidTargetKey], call.a.uid)
    /\ fs[SetidTargetKey].owner = RootUid
    /\ call.a.name # NoName =>
          /\ Key(env, call.a.self) \in DOMAIN fs
          /\ fs[SetidTargetKey].content = fs[Key(env, call.a.self)].content

\* C16: whenever setid returns, in copy A and in copy B, the target carries
\* the requested set-id bit and the execute bits, is owned by root and, when
\* a name was given, has the content of the source.
C16_PromotedOnReturn == (call.op = "setid" /\ call.exc = "none") => Promoted

\* the place of a command in the promotion sequence
PromotionStep(prog) == CASE prog = "cp" -> 1 [] prog = "chown" -> 2 [] prog = "chmod" -> 3

\* C17: the commands of a setid call, in copy A and in copy B, are issued in
\* the order cp, chown, chmod, and a command is issued only when every
\* command before it exited 0: a failed cp is followed by neither chown nor
\* chmod, a failed chown is not followed by chmod.
C17_PromotionOrder ==
    call.op = "setid" =>
        \A i, j \in DOMAIN call.cmds :
            i < j => /\ PromotionStep(call.cmds[i].prog) < PromotionStep(call.cmds[j].prog)
                     /\ call.cmds[i].rc = 0

\* cp went through, chown failed, and nothing followed
C17_Witness ==
    /\ call.op = "setid"
    /\ Len(call.cmds) = 2
    /\ call.cmds[1].prog = "cp" /\ call.cmds[1].rc = 0
    /\ call.cmds[2].prog = "chown" /\ call.cmds[2].rc # 0
    /\ call.exc = "CalledProcessError"

(***************************************************************************)
(* Claims about Path.cmp.                                                  *)
(***************************************************************************)
CmpSelf == fs[Key(env, call.self)]
CmpOther == fs[Key(env, call.other)]

\* the caller may read the file
Readable(n) == Permits(n, env.euid, {R_OK})

\* the two contents have the same length and differ in exactly one byte
OneByteApart(c, d) ==
    /\ Len(c) = Len(d)
    /\ Cardinality({i \in DOMAIN c : c[i] # d[i]}) = 1

IsRm == call.op \in {"rm", "rmB"}

\* the path to delete: self joined with the given parts
RmAsked == Key(env, Join(call.a.self, call.a.name))

\* what the call removed
Removed == DOMAIN call.pre \ DOMAIN fs

\* C19: rm, in copy A and in copy B, on a path to delete (self joined with
\* the parts) that does not exist returns without a command when
\* missing_ok is true and raises FileNotFoundError when it is false.
C19_MissingPath ==
    (IsRm /\ RmAsked \notin DOMAIN call.pre) =>
        IF call.a.missing_ok
        THEN call.exc = "none" /\ call.cmds = <<>>
        ELSE call.exc = "FileNotFoundError"

\* C20: the rm command issued names the path to delete (self joined with
\* the parts), and nothing outside that path is removed, in copy A and in
\* copy B.
C20_RemovesWhatWasAsked ==
    IsRm => /\ \A i \in DOMAIN call.cmds : call.cmds[i].path = RmAsked
            /\ \A q \in Removed : IsPrefixOf(RmAsked, q)

(***************************************************************************)
(* Claims about Path.cp.                                                   *)
(***************************************************************************)
IsCp == call.op \in {"cp", "cpB"}

\* C21: the cp command of a cp call, in copy A and in copy B, names the
\* source (with a trailing "/" exactly when contents is requested) and then
\* the destination, and a cp call that returns, returns the destination.
C21_CpOperands ==
    IsCp =>
        /\ \A i \in DOMAIN call.cmds :
              /\ call.cmds[i].prog = "cp"
              /\ call.cmds[i].src = Key(env, call.a.self)
              /\ ("/" \in call.cmds[i].flags) <=> call.a.contents
              /\ call.cmds[i].path = Key(env, call.a.dest)
        /\ call.exc = "none" => call.ret = call.a.dest

(***************************************************************************)
(* Claims about Path.mkdir in the two copies.                              *)
(***************************************************************************)
IsMkdir == call.op \in {"mkdir", "mkdirB"}

\* C22: a mkdir call, of copy A or of copy B, that was given an identity and
\* returns, returns a directory owned by that identity; a mkdir call that
\* was given none issues no chown.
C22_MkdirOwner ==
    IsMkdir =>
        /\ (call.a.passwd # NoPasswd /\ call.exc = "none") =>
              /\ Key(env, call.ret) \in DOMAIN fs
              /\ fs[Key(env, call.ret)].kind = "dir"
              /\ fs[Key(env, call.ret)].owner = call.a.passwd.uid
        /\ call.a.passwd = NoPasswd =>
              \A i \in DOMAIN call.cmds : call.cmds[i].prog # "chown"

(***************************************************************************)
(* Claims about the Passwd cache.                                          *)
(***************************************************************************)
IsLookup == call.op \in {"Passwd", "from_login", "from_sudo", "from_root"}

\* the account the lookup was about had a record in the cache before it
WasCached == PyInt(call.uid) \in DOMAIN call.pre

\* every entry the cache held before the lookup is still there, unchanged
EntriesKept ==
    \A k \in DOMAIN call.pre :
        k \in DOMAIN env._cache_passwd /\ env._cache_passwd[k] = call.pre[k]

\* the entries under a uid and under its username are one and the same
\* record
KeysAgree ==
    \A a \in Accounts :
        PyInt(a.uid) \in DOMAIN env._cache_passwd =>
            /\ PyStr(a.user) \in DOMAIN env._cache_passwd
            /\ env._cache_passwd[PyStr(a.user)] = env._cache_passwd[PyInt(a.uid)]

\* C23: after every lookup the cache holds, unchanged, every entry it held
\* before it, the entries under a uid and under its username are the same
\* record, and a from_root, from_login or from_sudo lookup of an account that
\* was cached returns that cached record.
C23_CachedForGood ==
    IsLookup =>
        /\ EntriesKept
        /\ KeysAgree
        /\ (call.op # "Passwd" /\ WasCached) => call.ret = call.pre[PyInt(call.uid)]

(***************************************************************************)
(* Claims about concurrent first lookups.                                  *)
(***************************************************************************)
AllDone == \A t \in Threads : call[t].pc = "done"

\* the record has the fields a lookup of the account a on its own produces
FieldsOf(r, a) == r.uid = a.uid /\ r.user = a.user

\* C24: when every thread has finished, the cache holds, for every account a
\* thread looked up, a record under its uid and a record under its username,
\* each with the fields of that account; and at no time does a key of the
\* cache hold a record of another account.
C24_BenignRace ==
    /\ \A k \in DOMAIN env._cache_passwd :
          \E a \in Accounts :
              /\ k \in {PyInt(a.uid), PyStr(a.user)}
              /\ FieldsOf(env._cache_passwd[k], a)
    /\ AllDone =>
          \A t \in Threads, a \in Accounts :
              FieldsOf(call[t].self, a) =>
                  /\ PyInt(a.uid) \in DOMAIN env._cache_passwd
                  /\ PyStr(a.user) \in DOMAIN env._cache_passwd
                  /\ FieldsOf(env._cache_passwd[PyInt(a.uid)], a)
                  /\ FieldsOf(env._cache_passwd[PyStr(a.user)], a)

\* two threads raced: the two keys of an account ended with different objects
C24_Witness ==
    /\ AllDone
    /\ \E a \in Accounts :
          /\ PyInt(a.uid) \in DOMAIN env._cache_passwd
          /\ PyStr(a.user) \in DOMAIN env._cache_passwd
          /\ env._cache_passwd[PyInt(a.uid)].obj # env._cache_passwd[PyStr(a.user)].obj

(***************************************************************************)
(* Claims about concurrent callers.                                        *)
(***************************************************************************)
RECURSIVE RunAlone(_, _, _)
\* the caller c run to its end with nobody else at work
RunAlone(f, e, c) ==
    IF c.pc = "done" THEN [fs |-> f, c |-> c]
    ELSE RunAlone(StepOf(f, e, c).fs, e, StepOf(f, e, c).c)

\* the caller t run to its end, then the caller u, from the start
OneAfterTheOther(t, u) ==
    RunAlone(RunAlone(call[t].pre, env, call[t].start).fs, env, call[u].start)

\* the operation of the caller ended in an exception or a failed command
Fails(c) == c.exc # "none" \/ c.failed

BothDone == \A t \in Callers : call[t].c.pc = "done"

\* C25: when two callers running mkdir or touch on different paths have both
\* finished, whatever the interleaving of their steps, the file system is
\* the one that running the two one after the other (in one of the two
\* orders) leaves, and an operation has failed only if it also fails when
\* it runs on its own.
C25_DisjointCallers ==
    BothDone =>
        /\ fs \in {OneAfterTheOther(1, 2).fs, OneAfterTheOther(2, 1).fs}
        /\ \A t \in Callers :
              Fails(call[t].c) => Fails(RunAlone(call[t].pre, env, call[t].start).c)

\* both callers worked below the missing /d and neither failed; the two
\* orders leave different file systems, and this run ended as the order
\* "caller 2 first" does
C25_Witness ==
    /\ BothDone
    /\ SharedDir \notin DOMAIN call[1].pre
    /\ \A t \in Callers : Len(call[t].start.path.parts) = 2 /\ ~Fails(call[t].c)
    /\ Cardinality(DOMAIN fs) = 4
    /\ OneAfterTheOther(1, 2).fs # OneAfterTheOther(2, 1).fs
    /\ fs # OneAfterTheOther(1, 2).fs

(***************************************************************************)
(* Claims about Path.cd and Path.tempcd.                                   *)
(***************************************************************************)
\* a context whose body was entered has been left
LeftContext == call # NoCall /\ call.op \in {"cd", "tempcd"} /\ call.entered /\ call.pc = "left"

\* C26: when a cd or tempcd context has been left, by a return or by an
\* exception of its body, the working directory is the one on entry; for
\* tempcd the temporary directory is gone, and it went after the working
\* directory was restored.
C26_CwdRestored ==
    LeftContext =>
        /\ env.cwd = Key(env, call.oldpwd)
        /\ call.op = "tempcd" =>
              /\ TempDir \notin DOMAIN fs
              /\ call.events = <<"restored", "removed">>

\* the directory on entry is still there and the process may enter it
EntryKept == OsChdir(fs, env, Key(env, call.oldpwd)) = "none"

\* C26 (amended): when a cd or tempcd context has been left and the
\* directory on entry can still be entered, the working directory is the
\* one on entry; for tempcd the temporary directory is gone, and it went
\* after the working directory was restored.
C26_RestoredWhenKept == (LeftContext /\ EntryKept) => C26_CwdRestored

\* a tempcd context whose body changed directory and raised has been left
C26_Witness ==
    /\ LeftContext /\ EntryKept
    /\ call.op = "tempcd" /\ call.steps > 0 /\ call.exc = "BodyError"
    /\ env.cwd # TempDir

(***************************************************************************)
(* Claims about Path.ln.                                                   *)
(***************************************************************************)
IsLn == call # NoCall /\ call.op = "ln"

\* before the call, dest was a symbolic link through which self is reached
LinkedBefore == SameSource_Resolved(call.pre, env, call.a.self, call.a.dest)

\* after the call, dest is a symbolic link through which self is reached
LinkedAfter == SameSource_Resolved(fs, env, call.a.self, call.a.dest)

\* C27: ln(dest) on a dest that is already a symbolic link resolving to
\* self returns it with no command and no change; otherwise, without force
\* an existing dest gives FileExistsError and no change, and with force an
\* existing dest is removed before the link is made, so that after a call
\* that returned dest is a symbolic link resolving to self.
C27_LnIdempotent ==
    IsLn =>
        IF LinkedBefore
        THEN call.exc = "none" /\ call.cmds = <<>> /\ fs = call.pre /\ call.ret = call.a.dest
        ELSE /\ (~call.a.force /\ Exists(call.pre, env, call.a.dest))
                    => (call.exc = "FileExistsError" /\ fs = call.pre)
             /\ (call.a.force /\ call.exc = "none")
                    => /\ LinkedAfter
                       /\ Exists(call.pre, env, call.a.dest)
                              => (call.cmds # <<>> /\ call.cmds[1].prog = "rm")

(***************************************************************************)
(* Claims about the commands of Path.touch.                                *)
(***************************************************************************)
\* touch was called on a target that was not there
TouchedMissing ==
    /\ call # NoCall /\ call.op = "touch"
    /\ Key(env, Join(call.a.self, call.a.name)) \notin DOMAIN call.pre

TouchTarget == Key(env, Join(call.a.self, call.a.name))

\* the place of a command in a touch
TouchRank(prog) ==
    CASE prog = "mkdir" -> 1 [] prog = "touch" -> 2 [] prog = "chmod" -> 3
      [] prog = "chown" -> 4 [] OTHER -> 0

TouchProgs == {call.cmds[i].prog : i \in DOMAIN call.cmds}

\* the commands come in the order mkdir, touch, chmod, chown, none twice;
\* mkdir is there exactly when the parent was missing, chown only with an
\* identity and only on the target; after a touch command that failed there
\* is no chmod and no chown
TouchCommands ==
    /\ \A i, j \in DOMAIN call.cmds :
          /\ TouchRank(call.cmds[i].prog) > 0
          /\ i < j => TouchRank(call.cmds[i].prog) < TouchRank(call.cmds[j].prog)
    /\ "mkdir" \in TouchProgs
          <=> (call.cmds # <<>> /\ Front(TouchTarget) \notin DOMAIN call.pre)
    /\ "chmod" \in TouchProgs => "touch" \in TouchProgs
    /\ "chown" \in TouchProgs => ("chmod" \in TouchProgs /\ call.a.passwd # NoPasswd)
    /\ (call.exc = "none" /\ call.a.passwd # NoPasswd) => "chown" \in TouchProgs
    /\ \A i \in DOMAIN call.cmds :
          /\ call.cmds[i].prog = "chown"
                => (call.cmds[i].path = TouchTarget /\ "-R" \notin call.cmds[i].flags)
          /\ (call.cmds[i].prog = "touch" /\ call.cmds[i].rc # 0)
                => TouchProgs \cap {"chmod", "chown"} = {}

\* the directories the touch made
TouchMade == (DOMAIN fs \ DOMAIN call.pre) \ {TouchTarget}

\* C28: a touch on a missing target issues mkdir (only for a missing
\* parent), touch, chmod and chown (only with an identity) in this order,
\* none after a touch command that failed; the identity goes to the file
\* only, and the parent directories it made are owned by the caller.
C28_TouchOrder ==
    TouchedMissing =>
        /\ TouchCommands
        /\ \A k \in TouchMade : fs[k].owner = env.euid

\* C28 (amended): as C28, the parent directories made being owned by the
\* identity their mkdir command ran as: the caller, or root when the command
\* had the escalation prefix.
C28_TouchOrderMkdirOwner ==
    TouchedMissing =>
        /\ TouchCommands
        /\ \A k \in TouchMade :
              fs[k].owner = IF call.cmds[1].prefix # <<>> THEN RootUid ELSE env.euid

\* a touch with an identity that made the parent and the file: four
\* commands, and the parent is not owned by the identity
C28_Witness ==
    /\ TouchedMissing /\ call.exc = "none"
    /\ Len(call.cmds) = 4
    /\ call.a.passwd # NoPasswd
    /\ \E k \in TouchMade : fs[k].owner # call.a.passwd.uid
    /\ fs[TouchTarget].owner = call.a.passwd.uid

(***************************************************************************)
(* Claims about the end of the walk of Path.sudo.                          *)
(***************************************************************************)
\* C29: the walk of Path.sudo over the ancestors of its path comes to an
\* end in both copies, for absolute and relative paths and whatever exists
\* and is granted along the chain: the call returns.
C29_WalkTerminates ==
    (call # NoCall /\ call.op \in {"sudoA", "sudoB"}) => call.result # "diverges"

(***************************************************************************)
(* Claims about which().                                                   *)
(***************************************************************************)
\* C30: whatever which calls came before it, which(cmd) returns what it
\* returns as the first call of the process.
C30_WhichByCmdAlone ==
    (call # NoCall /\ call.op = "which")
        => call.ret = WhichCmd(<<>>, fs, call.cmd).ret
====
